---- MODULE Spec2Model ----
(***************************************************************************)
(* Model of the geometry-node graph synthesis engine                       *)
(* (src/generator/generate.py, src/generator/context_builder.py).          *)
(*                                                                         *)
(* Python values are represented as follows.                               *)
(*   - a str is a TLA+ string; f"node_{k}" is "node_" \o ToString(k)       *)
(*   - a list is a sequence; a dict is a sequence of entries in insertion  *)
(*     order (Python dicts iterate in insertion order)                     *)
(*   - a node tuple (var, type_id, label, col, row) is a 5-tuple           *)
(*   - a link tuple (from_var, from_sock, to_var, to_sock) is a 4-tuple    *)
(*   - a property / default value is a tagged pair <<kind, text>>, kind    *)
(*     "list" for a list or tuple and "scalar" otherwise                   *)
(*   - a line of the emitted build_tree() text is a tuple whose first      *)
(*     element names the kind of line                                      *)
(***************************************************************************)
EXTENDS Integers, Sequences, FiniteSets, TLC

VARIABLES
    kb,           \* kb["nodes"]: operator profiles in iteration order
    kb_patterns,  \* kb["patterns"]: the verified exemplars in list order
    kb_connections, \* kb["connections"]["valid_connections"]
    description,  \* the request text, a sequence of characters
    max_nodes,    \* build_context's max_nodes argument
    nodes,        \* _DAGBuilder.nodes
    links,        \* _DAGBuilder.links
    defaults,     \* _DAGBuilder.defaults
    properties,   \* _DAGBuilder.properties
    var_counter,  \* _DAGBuilder._var_counter
    out,          \* the lines returned by the last emit(), <<>> before it
    emits,        \* number of emit() calls made on the builder
    ops,          \* number of add/wire/set_prop/set_default calls made
    late_prop,    \* history: some set_prop came after a wire on the same node
    pc,           \* position of the request: "builder", "context", "done"
    search_terms,     \* the set extract_search_terms returned
    matched,          \* context["matched_nodes"]: the specs in dict order
    example_patterns, \* context["example_patterns"]
    connection_rules, \* context["connection_rules"]["valid"]
    used_idiom,   \* generate_compositional's used_idiom ("None" before / without)
    method        \* generate_script's generation_method ("None" before)

request == <<kb, kb_patterns, kb_connections, description, max_nodes>>
context == <<search_terms, matched, example_patterns, connection_rules>>

vars == <<request, context, nodes, links, defaults, properties, var_counter, out,
          emits, ops, late_prop, pc, used_idiom, method>>

\* ------------------------------------------------------------------ bounds
MaxOps == 4      \* builder calls before emit
MaxEmits == 2    \* emit() calls on one builder

\* ------------------------------------------------------- generic helpers
Range(s) == {s[i] : i \in DOMAIN s}

RECURSIVE SelectSeq2(_, _)
\* the subsequence of s whose elements x satisfy x[1] = key
SelectSeq2(s, key) ==
    IF s = <<>> THEN <<>>
    ELSE IF Head(s)[1] = key THEN <<Head(s)>> \o SelectSeq2(Tail(s), key)
         ELSE SelectSeq2(Tail(s), key)

RECURSIVE Flatten(_)
Flatten(ss) == IF ss = <<>> THEN <<>> ELSE Head(ss) \o Flatten(Tail(ss))

Max(S, dflt) == IF S = {} THEN dflt ELSE CHOOSE m \in S : \A x \in S : x <= m

\* ---------------------------------------------------------- KB profiles
Port(n, t) == [name |-> n, type |-> t]

\* build_kb.build_node_profiles: the role is derived from the ports
DeriveRole(inputs, outputs) ==
    LET gi == \E i \in DOMAIN inputs : inputs[i].type = "GEOMETRY"
        go == \E i \in DOMAIN outputs : outputs[i].type = "GEOMETRY"
    IN  IF gi /\ go THEN "processor"
        ELSE IF go /\ ~gi THEN "generator"
        ELSE IF gi /\ ~go THEN "consumer"
        ELSE "field"

\* a settable property of a profile; enum tells whether it has "enum_items"
Prop(n, enum, items) == [name |-> n, enum |-> enum, items |-> items]

\* one entry of kb["nodes"], as build_kb.build_node_profiles writes it
Profile(id, name, domain, inputs, outputs, props, behavior) ==
    [id |-> id, name |-> name, domain |-> domain,
     inputs |-> inputs, outputs |-> outputs, properties |-> props,
     role |-> DeriveRole(inputs, outputs), observed_behavior |-> behavior]

Geo(n) == Port(n, "GEOMETRY")

InstanceOnPoints ==
    Profile("GeometryNodeInstanceOnPoints", "Instance on Points", "instances",
            <<Geo("Points"), Geo("Instance")>>, <<Geo("Instances")>>,
            <<>>, "TYPE_CONVERTED")

RealizeInstances ==
    Profile("GeometryNodeRealizeInstances", "Realize Instances", "instances",
            <<Geo("Geometry")>>, <<Geo("Geometry")>>, <<>>, "PASSTHROUGH")

ObjectInfo ==
    Profile("GeometryNodeObjectInfo", "Object Info", "input",
            <<Port("Object", "OBJECT")>>, <<Geo("Geometry")>>, <<>>, "NOT_TESTED")

\* the KB slice the free builder runs are read against
BuilderKB == <<InstanceOnPoints, RealizeInstances, ObjectInfo>>

KBIds(k) == {k[i].id : i \in DOMAIN k}
KBGet(k, id) == k[CHOOSE i \in DOMAIN k : k[i].id = id]

\* ----------------------------------------------------------- _DAGBuilder
_INSTANCE_PRODUCING_NODES ==
    {"GeometryNodeInstanceOnPoints", "GeometryNodeGeometryToInstance",
     "GeometryNodeCollectionInfo", "GeometryNodeObjectInfo",
     "GeometryNodeDuplicateElements"}

REALIZE == "GeometryNodeRealizeInstances"

VarName(k) == "node_" \o ToString(k)

\* one builder: the five fields of _DAGBuilder
Dag(n, l, d, p, c) ==
    [nodes |-> n, links |-> l, defaults |-> d, properties |-> p, var_counter |-> c]

EmptyDag == Dag(<<>>, <<>>, <<>>, <<>>, 0)

\* add() without "self._var_counter += 1"
DagAddStaleCounter(g, tid, label, col, row) ==
    [g EXCEPT !.nodes = Append(@, <<VarName(g.var_counter), tid, label, col, row>>)]

\* add(type_id, label, col, row): the builder after the call
DagAdd(g, tid, label, col, row) ==
    [g EXCEPT !.nodes = Append(@, <<VarName(g.var_counter), tid, label, col, row>>),
              !.var_counter = @ + 1]

\* the variable name add() returns
DagAddVar(g) == VarName(g.var_counter)

DagWire(g, fv, fs, tv, ts) == [g EXCEPT !.links = Append(@, <<fv, fs, tv, ts>>)]

DagSetDefault(g, var, sname, val) ==
    [g EXCEPT !.defaults = Append(@, <<var, sname, val>>)]

DagSetProp(g, var, pname, val) ==
    [g EXCEPT !.properties = Append(@, <<var, pname, val>>)]

\* var_to_type.get(var): the type of the LAST node tuple with that var, or "None"
VarToType(ns, var) ==
    LET hits == {i \in DOMAIN ns : ns[i][1] = var}
    IN  IF hits = {} THEN "None" ELSE ns[Max(hits, 0)][2]

\* indices of the links that wire an instance-producing node directly to gout
LinksToPatch(g) ==
    {i \in DOMAIN g.links :
        /\ g.links[i][3] = "gout"
        /\ VarToType(g.nodes, g.links[i][1]) \in _INSTANCE_PRODUCING_NODES}

HasRealize(ns) == \E i \in DOMAIN ns : ns[i][2] = REALIZE

\* a repair pass that never inserts anything
EnsureRealizeSkipped(g) == g

\* the repair pass without its "Realize Instances already exists" early return
EnsureRealizeNoExistsCheck(g) ==
    IF LinksToPatch(g) = {} THEN g
    ELSE LET max_col == Max({g.nodes[i][4] : i \in DOMAIN g.nodes}, 1)
             realize_var == DagAddVar(g)
             g1 == DagAdd(g, REALIZE, "Realize Instances", max_col + 1, 0)
             patched == [i \in DOMAIN g1.links |->
                            IF i \in LinksToPatch(g)
                            THEN <<g1.links[i][1], g1.links[i][2], realize_var, "Geometry">>
                            ELSE g1.links[i]]
         IN  DagWire([g1 EXCEPT !.links = patched], realize_var, "Geometry", "gout", "Geometry")

\* a repair pass that wires the new realize node back into the first source it
\* took over instead of into the output
EnsureRealizeBackEdge(g) ==
    IF LinksToPatch(g) = {} THEN g
    ELSE IF HasRealize(g.nodes) THEN g
    ELSE LET max_col == Max({g.nodes[i][4] : i \in DOMAIN g.nodes}, 1)
             realize_var == DagAddVar(g)
             g1 == DagAdd(g, REALIZE, "Realize Instances", max_col + 1, 0)
             patched == [i \in DOMAIN g1.links |->
                            IF i \in LinksToPatch(g)
                            THEN <<g1.links[i][1], g1.links[i][2], realize_var, "Geometry">>
                            ELSE g1.links[i]]
             g2 == [g1 EXCEPT !.links = patched]
             first == CHOOSE i \in LinksToPatch(g) : \A j \in LinksToPatch(g) : i <= j
         IN  DagWire(g2, realize_var, "Geometry", g.links[first][1], "Geometry")

\* _ensure_realize_instances(): the builder after the repair pass
EnsureRealizeInstances(g) ==
    IF LinksToPatch(g) = {} THEN g
    ELSE IF HasRealize(g.nodes) THEN g
    ELSE LET max_col == Max({g.nodes[i][4] : i \in DOMAIN g.nodes}, 1)
             realize_var == DagAddVar(g)
             g1 == DagAdd(g, REALIZE, "Realize Instances", max_col + 1, 0)
             patched == [i \in DOMAIN g1.links |->
                            IF i \in LinksToPatch(g)
                            THEN <<g1.links[i][1], g1.links[i][2], realize_var, "Geometry">>
                            ELSE g1.links[i]]
             g2 == [g1 EXCEPT !.links = patched]
         IN  DagWire(g2, realize_var, "Geometry", "gout", "Geometry")

\* how emit() renders a socket default: tuple(sval) for a list, repr otherwise
RenderDefault(val) == IF val[1] = "list" THEN <<"tuple", val[2]>> ELSE <<"repr", val[2]>>

\* a node block that writes the socket defaults before the properties
NodeBlockDefaultsFirst(g, n) ==
    LET var == n[1]
        ps == SelectSeq2(g.properties, var)
        ds == SelectSeq2(g.defaults, var)
    IN  <<  <<"comment", n[3]>>,
            <<"add_node", var, n[2], n[4] * 250, n[5] * (-250)>>  >>
        \o [i \in DOMAIN ds |-> <<"set_default", var, ds[i][2], RenderDefault(ds[i][3])>>]
        \o [i \in DOMAIN ps |-> <<"set_prop", var, ps[i][2], <<"repr", ps[i][3][2]>>>>]

\* the lines emit() writes for one node: comment, add_node, properties, defaults
NodeBlock(g, n) ==
    LET var == n[1]
        ps == SelectSeq2(g.properties, var)
        ds == SelectSeq2(g.defaults, var)
    IN  <<  <<"comment", n[3]>>,
            <<"add_node", var, n[2], n[4] * 250, n[5] * (-250)>>  >>
        \o [i \in DOMAIN ps |-> <<"set_prop", var, ps[i][2], <<"repr", ps[i][3][2]>>>>]
        \o [i \in DOMAIN ds |-> <<"set_default", var, ds[i][2], RenderDefault(ds[i][3])>>]

LinkLines(g) ==
    [i \in DOMAIN g.links |->
        <<"link", g.links[i][1], g.links[i][2], g.links[i][3], g.links[i][4]>>]

\* single-pass emission: each node's wires follow its block at once
EmitLinesSinglePass(g) ==
    <<  <<"def">>, <<"doc">>, <<"create_node_tree">>, <<"blank">>  >>
    \o Flatten([i \in DOMAIN g.nodes |->
                    NodeBlock(g, g.nodes[i])
                    \o SelectSeq(LinkLines(g),
                                 LAMBDA l : l[2] = g.nodes[i][1]
                                            \/ (l[4] = g.nodes[i][1] /\ l[2] = "gin"))])
    \o <<  <<"blank">>, <<"return">>  >>

\* the lines emit() returns for an (already repaired) builder
EmitLines(g) ==
    <<  <<"def">>, <<"doc">>, <<"create_node_tree">>, <<"blank">>  >>
    \o Flatten([i \in DOMAIN g.nodes |-> NodeBlock(g, g.nodes[i])])
    \o <<  <<"blank">>, <<"comment", "Wire connections">>  >>
    \o LinkLines(g)
    \o <<  <<"blank">>, <<"return">>  >>

\* _types_compatible(out_type, in_type)
TypesCompatible(out_type, in_type) ==
    LET numeric == {"BOOLEAN", "INT", "VALUE", "FLOAT", "RGBA", "VECTOR"}
    IN  IF out_type = in_type THEN TRUE
        ELSE IF out_type \in numeric /\ in_type \in numeric THEN TRUE
        ELSE FALSE

\* --------------------------------------------- the builder as state machine
CurDag == Dag(nodes, links, defaults, properties, var_counter)

SetDag(g) ==
    /\ nodes' = g.nodes
    /\ links' = g.links
    /\ defaults' = g.defaults
    /\ properties' = g.properties
    /\ var_counter' = g.var_counter

NodeVars == {nodes[i][1] : i \in DOMAIN nodes}

Cols == {1}
PropChoices == {<<"operation", <<"scalar", "DIFFERENCE">>>>,
                <<"data_type", <<"scalar", "FLOAT">>>>}
DefaultChoices == {<<"Radius", <<"scalar", "0.05">>>>,
                   <<"Offset", <<"list", "0,0,1">>>>}

\* output port names a caller passes for a node: its declared ones
OutNames(var) ==
    IF var = "gin" THEN {"Geometry"}
    ELSE LET t == VarToType(nodes, var)
         IN  (IF t \in KBIds(kb)
              THEN {KBGet(kb, t).outputs[i].name : i \in DOMAIN KBGet(kb, t).outputs}
              ELSE {"Mesh"})

\* input port names a caller passes for a node: its declared ones and the
\* builders' fallback name "Mesh"
InNames(var) ==
    IF var = "gout" THEN {"Geometry"}
    ELSE LET t == VarToType(nodes, var)
         IN  (IF t \in KBIds(kb)
              THEN {KBGet(kb, t).inputs[i].name : i \in DOMAIN KBGet(kb, t).inputs}
              ELSE {}) \cup {"Mesh"}

Add(tid, col) ==
    /\ emits = 0 /\ ops < MaxOps
    /\ SetDag(DagAdd(CurDag, tid, KBGet(kb, tid).name, col, 0))
    /\ ops' = ops + 1
    /\ UNCHANGED <<request, context, out, emits, late_prop, pc, used_idiom, method>>

Wire(fv, fs, tv, ts) ==
    /\ emits = 0 /\ ops < MaxOps
    /\ SetDag(DagWire(CurDag, fv, fs, tv, ts))
    /\ ops' = ops + 1
    /\ UNCHANGED <<request, context, out, emits, late_prop, pc, used_idiom, method>>

SetProp(var, pname, val) ==
    /\ emits = 0 /\ ops < MaxOps
    /\ SetDag(DagSetProp(CurDag, var, pname, val))
    /\ ops' = ops + 1
    /\ late_prop' = (late_prop \/ \E i \in DOMAIN links :
                                    links[i][1] = var \/ links[i][3] = var)
    /\ UNCHANGED <<request, context, out, emits, pc, used_idiom, method>>

SetDefault(var, sname, val) ==
    /\ emits = 0 /\ ops < MaxOps
    /\ SetDag(DagSetDefault(CurDag, var, sname, val))
    /\ ops' = ops + 1
    /\ UNCHANGED <<request, context, out, emits, late_prop, pc, used_idiom, method>>

Emit ==
    /\ emits < MaxEmits
    /\ LET g == EnsureRealizeInstances(CurDag)
       IN  /\ SetDag(g)
           /\ out' = EmitLines(g)
    /\ emits' = emits + 1
    /\ UNCHANGED <<request, context, ops, late_prop, pc, used_idiom, method>>

Init ==
    /\ kb = BuilderKB /\ kb_patterns = <<>> /\ kb_connections = <<>>
    /\ description = <<>> /\ max_nodes = 15 /\ connection_rules = <<>>
    /\ search_terms = {} /\ example_patterns = <<>> /\ method = "None"
    /\ nodes = <<>> /\ links = <<>> /\ defaults = <<>> /\ properties = <<>>
    /\ var_counter = 0
    /\ out = <<>> /\ emits = 0 /\ ops = 0
    /\ late_prop = FALSE
    /\ pc = "builder" /\ matched = <<>> /\ used_idiom = "None"

Next ==
    \/ \E tid \in KBIds(kb), col \in Cols : Add(tid, col)
    \/ \E fv \in NodeVars \cup {"gin"}, tv \in NodeVars \cup {"gout"} :
         \E fs \in OutNames(fv), ts \in InNames(tv) : Wire(fv, fs, tv, ts)
    \/ \E var \in NodeVars, c \in PropChoices : SetProp(var, c[1], c[2])
    \/ \E var \in NodeVars, c \in DefaultChoices : SetDefault(var, c[1], c[2])
    \/ Emit

Spec == Init /\ [][Next]_vars

\* add() called at any time, also between two emit() calls
AddAnytime(tid, col) ==
    /\ ops < MaxOps
    /\ SetDag(DagAdd(CurDag, tid, KBGet(kb, tid).name, col, 0))
    /\ ops' = ops + 1
    /\ UNCHANGED <<request, context, out, emits, late_prop, pc, used_idiom, method>>

\* the builder driven by add, wire and emit alone, emit() not being the last call
NextFresh ==
    \/ \E tid \in KBIds(kb), col \in Cols : AddAnytime(tid, col)
    \/ \E fv \in NodeVars \cup {"gin"}, tv \in NodeVars \cup {"gout"} :
         \E fs \in OutNames(fv), ts \in InNames(tv) : Wire(fv, fs, tv, ts)
    \/ Emit

SpecFresh == Init /\ [][NextFresh]_vars

\* ===================================================================
\* Compositional generation (generate.py, lines 257-700)
\* ===================================================================
\* -------------------------------------------------- context node specs
NoSpec ==
    [id |-> "None", name |-> "None", role |-> "None", observed_behavior |-> "None",
     inputs |-> <<>>, outputs |-> <<>>, enum_properties |-> <<>>, note |-> "None"]

\* build_context: the enum properties kept in a spec
EnumProps(props) ==
    LET keep == SelectSeq(props, LAMBDA p : p.enum /\ p.name \notin {"color_tag", "warning_propagation"})
    IN  [i \in DOMAIN keep |-> [name |-> keep[i].name, items |-> keep[i].items]]

\* build_context: the spec of a retrieved operator
RetrievedSpec(p) ==
    [id |-> p.id, name |-> p.name, role |-> p.role,
     observed_behavior |-> p.observed_behavior,
     inputs |-> p.inputs, outputs |-> p.outputs,
     enum_properties |-> EnumProps(p.properties), note |-> "None"]

\* build_context: the spec of an auto-included essential operator
EssentialSpec(p) ==
    [id |-> p.id, name |-> p.name, role |-> p.role,
     observed_behavior |-> "None",
     inputs |-> p.inputs, outputs |-> p.outputs,
     enum_properties |-> <<>>, note |-> "Essential utility node (auto-included)"]

\* nodes.keys()
Ids(m) == {m[i].id : i \in DOMAIN m}

\* nodes.get(id, {})
Get(m, id) == IF id \in Ids(m) THEN m[CHOOSE i \in DOMAIN m : m[i].id = id] ELSE NoSpec

\* Python's "x or d" on an optional string
Or(x, d) == IF x \in {"None", ""} THEN d ELSE x

\* _find_all_sockets(spec, direction, socket_type)
FindAllSockets(spec, direction, socket_type) ==
    LET ports == IF direction = "in" THEN spec.inputs ELSE spec.outputs
        hit == SelectSeq(ports, LAMBDA s : s.type = socket_type)
    IN  [i \in DOMAIN hit |-> hit[i].name]

\* _find_socket(spec, direction, socket_type)
FindSocket(spec, direction, socket_type) ==
    LET all == FindAllSockets(spec, direction, socket_type)
    IN  IF all = <<>> THEN "None" ELSE all[1]

\* [(nid, spec) for nid, spec in nodes.items() if spec.get("role") == role]
WithRole(m, role) == SelectSeq(m, LAMBDA sp : sp.role = role)

\* ------------------------------------------------------------- idioms
DPF == "GeometryNodeDistributePointsOnFaces"
IOP == "GeometryNodeInstanceOnPoints"
BOOL == "GeometryNodeMeshBoolean"
JOIN == "GeometryNodeJoinGeometry"
CTM == "GeometryNodeCurveToMesh"
CIRCLE == "GeometryNodeCurvePrimitiveCircle"

IDIOMS ==
    << [name |-> "scatter_instances", trigger_nodes |-> {DPF, IOP}],
       [name |-> "boolean_op", trigger_nodes |-> {BOOL}],
       [name |-> "join_geometry", trigger_nodes |-> {JOIN}],
       [name |-> "curve_to_mesh", trigger_nodes |-> {CTM}] >>

\* selection that lets a later idiom of the list override an earlier one
SelectIdiomLastMatch(matched_ids) ==
    LET hits == {i \in DOMAIN IDIOMS : IDIOMS[i].trigger_nodes \subseteq matched_ids}
    IN  IF hits = {} THEN "None" ELSE IDIOMS[Max(hits, 0)].name

\* generate_compositional's loop over IDIOMS: the first idiom whose trigger
\* set is a subset of the matched ids, "None" when there is none
SelectIdiom(matched_ids) ==
    LET hits == {i \in DOMAIN IDIOMS : IDIOMS[i].trigger_nodes \subseteq matched_ids}
    IN  IF hits = {} THEN "None"
        ELSE IDIOMS[CHOOSE i \in hits : \A j \in hits : i <= j].name

Scalar(x) == <<"scalar", x>>

\* _build_scatter_instances(dag, nodes, context)
BuildScatterInstances(dag, m) ==
    LET dist_spec == Get(m, DPF)
        cands == SelectSeq(m, LAMBDA sp : sp.role = "generator" /\ sp.id \notin {DPF, IOP})
        has_src == cands # <<>>
        dist == DagAddVar(dag)
        g1 == DagAdd(dag, DPF, "Distribute Points on Faces", 1, 0)
        g2 == DagWire(g1, "gin", "Geometry", dist, Or(FindSocket(dist_spec, "in", "GEOMETRY"), "Mesh"))
        src == DagAddVar(g2)
        g3 == IF has_src
              THEN DagAdd(g2, cands[1].id, cands[1].name, 1, 1)
              ELSE DagSetDefault(DagAdd(g2, "GeometryNodeMeshIcoSphere", "Ico Sphere", 1, 1),
                                 src, "Radius", Scalar("0.05"))
        iop == DagAddVar(g3)
        g4 == DagAdd(g3, IOP, "Instance on Points", 2, 0)
        g5 == DagWire(g4, dist, "Points", iop, "Points")
        src_out == Or(FindSocket(Get(m, IF has_src THEN cands[1].id ELSE ""), "out", "GEOMETRY"), "Mesh")
        g6 == DagWire(g5, src, src_out, iop, "Instance")
        real == DagAddVar(g6)
    IN  IF REALIZE \in Ids(m)
        THEN DagWire(DagWire(DagAdd(g6, REALIZE, "Realize Instances", 3, 0),
                             iop, "Instances", real, "Geometry"),
                     real, "Geometry", "gout", "Geometry")
        ELSE DagWire(g6, iop, "Instances", "gout", "Geometry")

\* _build_boolean_op(dag, nodes, context)
BuildBooleanOp(dag, m) ==
    LET bool_spec == Get(m, BOOL)
        gens == WithRole(m, "generator")
        src == DagAddVar(dag)
        g1 == IF gens # <<>>
              THEN DagAdd(dag, gens[1].id, gens[1].name, 1, 1)
              ELSE DagSetDefault(DagAdd(dag, "GeometryNodeMeshUVSphere", "UV Sphere", 1, 1),
                                 src, "Radius", Scalar("0.8"))
        src_out == IF gens # <<>> THEN Or(FindSocket(gens[1], "out", "GEOMETRY"), "Mesh") ELSE "Mesh"
        boolean == DagAddVar(g1)
        g2 == DagAdd(g1, BOOL, "Mesh Boolean", 2, 0)
        g3 == IF \E i \in DOMAIN bool_spec.enum_properties :
                    bool_spec.enum_properties[i].name = "operation"
              THEN DagSetProp(g2, boolean, "operation", Scalar("DIFFERENCE"))
              ELSE g2
        bool_geo_ins == FindAllSockets(bool_spec, "in", "GEOMETRY")
        g4 == IF Len(bool_geo_ins) >= 2
              THEN DagWire(DagWire(g3, "gin", "Geometry", boolean, bool_geo_ins[1]),
                           src, src_out, boolean, bool_geo_ins[2])
              ELSE DagWire(g3, "gin", "Geometry", boolean,
                           IF bool_geo_ins # <<>> THEN bool_geo_ins[1] ELSE "Mesh")
        bool_geo_out == Or(FindSocket(bool_spec, "out", "GEOMETRY"), "Mesh")
    IN  DagWire(g4, boolean, bool_geo_out, "gout", "Geometry")

JoinMaxGens == 3

RECURSIVE PlaceGens(_, _, _)
\* the loop "for i, (nid, spec) in enumerate(gen_nodes[:3])": add each generator
PlaceGens(dag, gens, i) ==
    IF gens = <<>> THEN dag
    ELSE PlaceGens(DagAdd(dag, Head(gens).id, Head(gens).name, 1, i + 1), Tail(gens), i + 1)

RECURSIVE WireGens(_, _, _, _, _)
\* the loop "for g_var, g_spec in placed_gens": wire each generator into join
WireGens(dag, gens, k, join, join_geo_in) ==
    IF gens = <<>> THEN dag
    ELSE WireGens(DagWire(dag, VarName(k), Or(FindSocket(Head(gens), "out", "GEOMETRY"), "Mesh"),
                          join, join_geo_in),
                  Tail(gens), k + 1, join, join_geo_in)

Take(s, n) == SubSeq(s, 1, IF Len(s) < n THEN Len(s) ELSE n)

\* the merge builder without the early return for "no generators"
BuildJoinGeometryNoSkip(dag, m) ==
    LET join_spec == Get(m, JOIN)
        placed == Take(WithRole(m, "generator"), JoinMaxGens)
        g1 == PlaceGens(dag, placed, 0)
        join == DagAddVar(g1)
        join_geo_in == Or(FindSocket(join_spec, "in", "GEOMETRY"), "Geometry")
        g3 == DagWire(DagAdd(g1, JOIN, "Join Geometry", 2, 0), "gin", "Geometry", join, join_geo_in)
        g4 == WireGens(g3, placed, dag.var_counter, join, join_geo_in)
    IN  DagWire(g4, join, Or(FindSocket(join_spec, "out", "GEOMETRY"), "Geometry"),
                "gout", "Geometry")

\* the merge builder looping over gen_nodes, not over gen_nodes[:3]
BuildJoinGeometryNoCap(dag, m) ==
    LET join_spec == Get(m, JOIN)
        placed == WithRole(m, "generator")
        g1 == PlaceGens(dag, placed, 0)
        join == DagAddVar(g1)
        join_geo_in == Or(FindSocket(join_spec, "in", "GEOMETRY"), "Geometry")
        g3 == DagWire(DagAdd(g1, JOIN, "Join Geometry", 2, 0), "gin", "Geometry", join, join_geo_in)
        g4 == WireGens(g3, placed, dag.var_counter, join, join_geo_in)
    IN  IF placed = <<>>
        THEN DagWire(dag, "gin", "Geometry", "gout", "Geometry")
        ELSE DagWire(g4, join, Or(FindSocket(join_spec, "out", "GEOMETRY"), "Geometry"),
                     "gout", "Geometry")

\* _build_join_geometry(dag, nodes, context)
BuildJoinGeometry(dag, m) ==
    LET join_spec == Get(m, JOIN)
        gen_nodes == WithRole(m, "generator")
        placed == Take(gen_nodes, JoinMaxGens)
        g1 == PlaceGens(dag, placed, 0)
        join == DagAddVar(g1)
        g2 == DagAdd(g1, JOIN, "Join Geometry", 2, 0)
        join_geo_in == Or(FindSocket(join_spec, "in", "GEOMETRY"), "Geometry")
        g3 == DagWire(g2, "gin", "Geometry", join, join_geo_in)
        g4 == WireGens(g3, placed, dag.var_counter, join, join_geo_in)
        join_geo_out == Or(FindSocket(join_spec, "out", "GEOMETRY"), "Geometry")
    IN  IF gen_nodes = <<>>
        THEN DagWire(dag, "gin", "Geometry", "gout", "Geometry")
        ELSE DagWire(g4, join, join_geo_out, "gout", "Geometry")

\* _build_curve_to_mesh(dag, nodes, context)
BuildCurveToMesh(dag, m) ==
    LET ctm_spec == Get(m, CTM)
        has_profile == CIRCLE \in Ids(m)
        profile == DagAddVar(dag)
        g1 == IF has_profile
              THEN DagAdd(dag, CIRCLE, Get(m, CIRCLE).name, 1, 1)
              ELSE DagSetDefault(DagAdd(dag, CIRCLE, "Curve Circle", 1, 1),
                                 profile, "Radius", Scalar("0.1"))
        ctm == DagAddVar(g1)
        g2 == DagAdd(g1, CTM, "Curve to Mesh", 2, 0)
        ctm_ins == FindAllSockets(ctm_spec, "in", "GEOMETRY")
        profile_out == Or(FindSocket(IF has_profile THEN Get(m, CIRCLE) ELSE NoSpec,
                                     "out", "GEOMETRY"), "Curve")
        g3 == IF Len(ctm_ins) >= 2
              THEN DagWire(DagWire(g2, "gin", "Geometry", ctm, ctm_ins[1]),
                           profile, profile_out, ctm, ctm_ins[2])
              ELSE IF ctm_ins # <<>>
              THEN DagWire(g2, "gin", "Geometry", ctm, ctm_ins[1])
              ELSE g2
        ctm_out == Or(FindSocket(ctm_spec, "out", "GEOMETRY"), "Mesh")
    IN  DagWire(g3, ctm, ctm_out, "gout", "Geometry")

\* ----------------------------------------------------- linear fallback
ChainMax == 8

FavorableBehaviors == {"MODIFIED", "PASSTHROUGH", "TYPE_CONVERTED"}

DefaultChainSpec ==
    [id |-> "GeometryNodeSubdivideMesh", name |-> "Subdivide Mesh", role |-> "None",
     observed_behavior |-> "None",
     inputs |-> <<Geo("Mesh"), Port("Level", "INT")>>, outputs |-> <<Geo("Mesh")>>,
     enum_properties |-> <<>>, note |-> "None"]

\* the (f_out, ng_in) pair the two inner loops stop at for one field node:
\* the first output, in order, that has a compatible non-geometry input, with
\* the first such input; <<>> when the field attaches nowhere
FieldAttachment(field_spec, non_geo_inputs) ==
    LET outs == field_spec.outputs
        fits(o) == {j \in DOMAIN non_geo_inputs :
                        TypesCompatible(outs[o].type, non_geo_inputs[j].type)}
        good == {o \in DOMAIN outs : fits(o) # {}}
    IN  IF good = {} THEN <<>>
        ELSE LET o == CHOOSE x \in good : \A y \in good : x <= y
                 j == CHOOSE x \in fits(o) : \A y \in fits(o) : x <= y
             IN  <<outs[o].name, non_geo_inputs[j].name>>

RECURSIVE AttachFields(_, _, _, _, _)
\* the loop "for field_nid, field_spec in fields" of one chain operator;
\* st = [dag, field_row]
AttachFields(st, fields, var, col, non_geo_inputs) ==
    IF fields = <<>> THEN st
    ELSE LET f == Head(fields)
             att == FieldAttachment(f, non_geo_inputs)
             f_var == DagAddVar(st.dag)
             st1 == IF att = <<>> THEN st
                    ELSE [dag |-> DagWire(DagAdd(st.dag, f.id, f.name, col + 1, st.field_row),
                                          f_var, att[1], var, att[2]),
                          field_row |-> st.field_row + 1]
         IN  AttachFields(st1, Tail(fields), var, col, non_geo_inputs)

RECURSIVE ChainLoop(_, _, _, _, _)
\* the loop "for col, (nid, spec) in enumerate(chain[:8])";
\* st = [dag, field_row], prev_geo = <<var, socket>>
ChainLoop(st, chain, col, prev_geo, fields) ==
    IF chain = <<>> THEN [dag |-> st.dag, prev_geo |-> prev_geo]
    ELSE LET spec == Head(chain)
             var == DagAddVar(st.dag)
             g1 == DagAdd(st.dag, spec.id, spec.name, col + 1, 0)
             geo_in == FindSocket(spec, "in", "GEOMETRY")
             geo_out == FindSocket(spec, "out", "GEOMETRY")
             g2 == IF geo_in \notin {"None", ""}
                   THEN DagWire(g1, prev_geo[1], prev_geo[2], var, geo_in)
                   ELSE g1
             prev2 == IF geo_out \notin {"None", ""} THEN <<var, geo_out>> ELSE prev_geo
             non_geo_inputs == SelectSeq(spec.inputs, LAMBDA s : s.type # "GEOMETRY")
             st2 == AttachFields([dag |-> g2, field_row |-> st.field_row],
                                 fields, var, col, non_geo_inputs)
         IN  ChainLoop(st2, Tail(chain), col + 1, prev2, fields)

\* _build_linear_chain looping over the whole chain, not over chain[:8]
BuildLinearChainNoCap(dag, m) ==
    LET processors == SelectSeq(m, LAMBDA sp : sp.role = "processor"
                                       /\ sp.observed_behavior \in FavorableBehaviors)
        generators == WithRole(m, "generator")
        fields == WithRole(m, "field")
        chain0 == IF processors # <<>> THEN processors ELSE generators
        chain == IF chain0 = <<>> THEN <<DefaultChainSpec>> ELSE chain0
        r == ChainLoop([dag |-> dag, field_row |-> 1], chain, 0,
                       <<"gin", "Geometry">>, fields)
    IN  DagWire(r.dag, r.prev_geo[1], r.prev_geo[2], "gout", "Geometry")

\* _build_linear_chain(dag, nodes, context)
BuildLinearChain(dag, m) ==
    LET processors == SelectSeq(m, LAMBDA sp : sp.role = "processor"
                                       /\ sp.observed_behavior \in FavorableBehaviors)
        generators == WithRole(m, "generator")
        fields == WithRole(m, "field")
        chain0 == IF processors # <<>> THEN processors ELSE generators
        chain == IF chain0 = <<>> THEN <<DefaultChainSpec>> ELSE chain0
        r == ChainLoop([dag |-> dag, field_row |-> 1], Take(chain, ChainMax), 0,
                       <<"gin", "Geometry">>, fields)
    IN  DagWire(r.dag, r.prev_geo[1], r.prev_geo[2], "gout", "Geometry")

\* the builders run when the linear chain is built without the
\* "if not used_idiom" test: the idiom's builder and then the linear chain
RunBuilderBoth(idiom, dag, m) ==
    LET g == CASE idiom = "scatter_instances" -> BuildScatterInstances(dag, m)
               [] idiom = "boolean_op" -> BuildBooleanOp(dag, m)
               [] idiom = "join_geometry" -> BuildJoinGeometry(dag, m)
               [] idiom = "curve_to_mesh" -> BuildCurveToMesh(dag, m)
               [] OTHER -> dag
    IN  BuildLinearChain(g, m)

\* the builder generate_compositional runs for the idiom it selected
RunBuilder(idiom, dag, m) ==
    CASE idiom = "scatter_instances" -> BuildScatterInstances(dag, m)
      [] idiom = "boolean_op" -> BuildBooleanOp(dag, m)
      [] idiom = "join_geometry" -> BuildJoinGeometry(dag, m)
      [] idiom = "curve_to_mesh" -> BuildCurveToMesh(dag, m)
      [] OTHER -> BuildLinearChain(dag, m)

\* generate_compositional(context, description, kb): select, build, emit
GenerateCompositional ==
    /\ pc = "context"
    /\ example_patterns = <<>>
    /\ LET idiom == SelectIdiom(Ids(matched))
           g == EnsureRealizeInstances(RunBuilder(idiom, EmptyDag, matched))
       IN  /\ used_idiom' = idiom
           /\ SetDag(g)
           /\ out' = EmitLines(g)
    /\ emits' = emits + 1
    /\ pc' = "done"
    /\ method' = "compositional"
    /\ UNCHANGED <<request, context, ops, late_prop>>

\* ------------------------------------------ contexts for generate_compositional
DistributePoints ==
    Profile(DPF, "Distribute Points on Faces", "points",
            <<Geo("Mesh"), Port("Density", "VALUE")>>, <<Geo("Points")>>,
            <<Prop("distribute_method", TRUE, <<"RANDOM", "POISSON">>)>>, "TYPE_CONVERTED")

\* a profile of the same operator whose ports carry no graph-typed input
DistributePointsNoGeoIn ==
    Profile(DPF, "Distribute Points on Faces", "points",
            <<Port("Density", "VALUE")>>, <<Geo("Points")>>, <<>>, "NOT_TESTED")

MeshBoolean ==
    Profile(BOOL, "Mesh Boolean", "mesh",
            <<Geo("Mesh 1"), Geo("Mesh 2")>>, <<Geo("Mesh")>>,
            <<Prop("solver", TRUE, <<"EXACT", "FLOAT">>),
              Prop("operation", TRUE, <<"INTERSECT", "UNION", "DIFFERENCE">>)>>, "MODIFIED")

MeshBooleanOneIn ==
    Profile(BOOL, "Mesh Boolean", "mesh",
            <<Geo("Mesh")>>, <<Geo("Mesh")>>, <<>>, "MODIFIED")

MeshBooleanNoGeoIn ==
    Profile(BOOL, "Mesh Boolean", "mesh",
            <<Port("Self Intersection", "BOOLEAN")>>, <<Geo("Mesh")>>, <<>>, "NOT_TESTED")

JoinGeometry ==
    Profile(JOIN, "Join Geometry", "geometry",
            <<Geo("Geometry")>>, <<Geo("Geometry")>>, <<>>, "PASSTHROUGH")

CurveToMesh ==
    Profile(CTM, "Curve to Mesh", "curve",
            <<Geo("Curve"), Geo("Profile Curve"), Port("Fill Caps", "BOOLEAN")>>,
            <<Geo("Mesh")>>, <<>>, "TYPE_CONVERTED")

CurveToMeshOneIn ==
    Profile(CTM, "Curve to Mesh", "curve",
            <<Geo("Curve")>>, <<Geo("Mesh")>>, <<>>, "TYPE_CONVERTED")

CurveToMeshNoGeoIn ==
    Profile(CTM, "Curve to Mesh", "curve",
            <<Port("Fill Caps", "BOOLEAN")>>, <<Geo("Mesh")>>, <<>>, "NOT_TESTED")

CurveCircle ==
    Profile(CIRCLE, "Curve Circle", "curve",
            <<Port("Radius", "VALUE")>>, <<Geo("Curve")>>,
            <<Prop("mode", TRUE, <<"POINTS", "RADIUS">>)>>, "NOT_TESTED")

MeshCube ==
    Profile("GeometryNodeMeshCube", "Cube", "mesh",
            <<Port("Size", "VECTOR")>>, <<Geo("Mesh")>>, <<>>, "NOT_TESTED")

SubdivideMesh ==
    Profile("GeometryNodeSubdivideMesh", "Subdivide Mesh", "mesh",
            <<Geo("Mesh"), Port("Level", "INT")>>, <<Geo("Mesh")>>, <<>>, "MODIFIED")

SetPosition ==
    Profile("GeometryNodeSetPosition", "Set Position", "geometry",
            <<Geo("Geometry"), Port("Offset", "VECTOR")>>, <<Geo("Geometry")>>,
            <<>>, "PASSTHROUGH")

MathNode ==
    Profile("ShaderNodeMath", "Math", "utility",
            <<Port("Value", "VALUE")>>, <<Port("Value", "VALUE")>>,
            <<Prop("operation", TRUE, <<"ADD", "SUBTRACT">>)>>, "NOT_TESTED")

RandomValue ==
    Profile("FunctionNodeRandomValue", "Random Value", "utility",
            <<Port("Seed", "INT")>>, <<Port("Value", "VALUE")>>, <<>>, "NOT_TESTED")

EulerToRotation ==
    Profile("FunctionNodeEulerToRotation", "Euler to Rotation", "utility",
            <<Port("Euler", "VECTOR")>>, <<Port("Rotation", "ROTATION")>>, <<>>, "NOT_TESTED")

TransformGeometry ==
    Profile("GeometryNodeTransform", "Transform Geometry", "geometry",
            <<Geo("Geometry"), Port("Transform", "MATRIX")>>, <<Geo("Geometry")>>,
            <<>>, "MODIFIED")

\* the specs a context may hold for each operator: its retrieved spec, for each
\* port list considered, and for the essential operators the auto-included one
CandidateSpecs ==
    {RetrievedSpec(p) : p \in {DistributePoints, DistributePointsNoGeoIn, InstanceOnPoints,
                               RealizeInstances, MeshBoolean, MeshBooleanOneIn,
                               MeshBooleanNoGeoIn, JoinGeometry, CurveToMesh,
                               CurveToMeshOneIn, CurveToMeshNoGeoIn, CurveCircle,
                               MeshCube, SubdivideMesh, SetPosition, MathNode,
                               RandomValue, EulerToRotation, TransformGeometry}}
    \cup {EssentialSpec(p) : p \in {JoinGeometry, RealizeInstances, SetPosition}}

MaxMatched == 3   \* operators in a context

\* processor profiles with a favorable observed behavior, none of them in a
\* trigger set or instance-producing
ProcessorPoolIds ==
    << <<"GeometryNodeTriangulate", "Triangulate">>,
       <<"GeometryNodeFlipFaces", "Flip Faces">>,
       <<"GeometryNodeDualMesh", "Dual Mesh">>,
       <<"GeometryNodeMergeByDistance", "Merge by Distance">>,
       <<"GeometryNodeTrimCurve", "Trim Curve">>,
       <<"GeometryNodeSubdivisionSurface", "Subdivision Surface">>,
       <<"GeometryNodeConvexHull", "Convex Hull">>,
       <<"GeometryNodeBoundBox", "Bounding Box">>,
       <<"GeometryNodeSplitEdges", "Split Edges">>,
       <<"GeometryNodeMeshToPoints", "Mesh to Points">> >>

PoolBehaviors == <<"MODIFIED", "PASSTHROUGH", "TYPE_CONVERTED">>

ProcessorPool ==
    [i \in DOMAIN ProcessorPoolIds |->
        RetrievedSpec(Profile(ProcessorPoolIds[i][1], ProcessorPoolIds[i][2], "mesh",
                              <<Geo("Mesh"), Port("Distance", "VALUE")>>, <<Geo("Mesh")>>,
                              <<>>, PoolBehaviors[(i % 3) + 1]))]

\* generator profiles, none of them in a trigger set
GeneratorPoolIds ==
    << <<"GeometryNodeMeshIcoSphere", "Ico Sphere">>,
       <<"GeometryNodeMeshUVSphere", "UV Sphere">>,
       <<"GeometryNodeMeshGrid", "Grid">>,
       <<"GeometryNodeMeshCylinder", "Cylinder">>,
       <<"GeometryNodeMeshCone", "Cone">>,
       <<"GeometryNodeMeshLine", "Mesh Line">>,
       <<"GeometryNodeMeshCircle", "Mesh Circle">>,
       <<"GeometryNodeCurvePrimitiveLine", "Curve Line">>,
       <<"GeometryNodeCurveStar", "Star">>,
       <<"GeometryNodeCurveSpiral", "Spiral">> >>

GeneratorPool ==
    [i \in DOMAIN GeneratorPoolIds |->
        RetrievedSpec(Profile(GeneratorPoolIds[i][1], GeneratorPoolIds[i][2], "mesh",
                              <<Port("Radius", "VALUE")>>, <<Geo("Mesh")>>,
                              <<>>, "NOT_TESTED"))]

MaxChainPool == 9   \* operators of one role in a long context

\* the long contexts: none, ChainMax or more processors and generators, in
\* either order, followed by at most one other operator
LongContexts ==
    LET lens == {0} \cup (ChainMax..MaxChainPool)
        extras == {<<>>, <<RetrievedSpec(MathNode)>>, <<EssentialSpec(SetPosition)>>,
                   <<RetrievedSpec(MeshCube)>>, <<RetrievedSpec(JoinGeometry)>>}
    IN  {a \o b \o x :
            a \in {Take(ProcessorPool, n) : n \in lens}
                    \cup {Take(GeneratorPool, n) : n \in lens},
            b \in {Take(ProcessorPool, n) : n \in lens}
                    \cup {Take(GeneratorPool, n) : n \in lens},
            x \in extras}

RECURSIVE Contexts(_)
\* the contexts of at most n operators with pairwise distinct ids, in every order
Contexts(n) ==
    IF n = 0 THEN {<<>>}
    ELSE LET prev == Contexts(n - 1)
         IN  prev \cup {Append(c, sp) : c \in prev, sp \in CandidateSpecs}

DistinctIds(m) == \A i, j \in DOMAIN m : i # j => m[i].id # m[j].id

InitGen ==
    /\ kb = <<>> /\ kb_patterns = <<>> /\ kb_connections = <<>>
    /\ description = <<>> /\ max_nodes = 15 /\ connection_rules = <<>>
    /\ search_terms = {} /\ example_patterns = <<>> /\ method = "None"
    /\ nodes = <<>> /\ links = <<>> /\ defaults = <<>> /\ properties = <<>>
    /\ var_counter = 0
    /\ out = <<>> /\ emits = 0 /\ ops = 0
    /\ late_prop = FALSE
    /\ pc = "context" /\ used_idiom = "None"
    /\ matched \in {c \in Contexts(MaxMatched) \cup LongContexts : DistinctIds(c)}

NextGen == GenerateCompositional

SpecGen == InitGen /\ [][NextGen]_vars

\* ===================================================================
\* Exemplar adaptation (generate.py, generate_from_pattern, lines 150-229)
\* ===================================================================
\* one entry of pattern["nodes_used"]; name is "None" when the key is absent;
\* properties and input_defaults are dicts, kept as sequences of <<key, value>>
PatNode(type, name, props, input_defaults) ==
    [type |-> type, name |-> name, properties |-> props,
     input_defaults |-> input_defaults]

PatLink(from_node, from_socket, to_node, to_socket) ==
    [from_node |-> from_node, from_socket |-> from_socket,
     to_node |-> to_node, to_socket |-> to_socket]

Pattern(name, desc, nodes_used, ls) ==
    [name |-> name, description |-> desc, nodes_used |-> nodes_used, links |-> ls]

\* node.get("name", type_id)
NodeName(node) == IF node.name = "None" THEN node.type ELSE node.name

\* pname.startswith("bl_"), over the property names exemplars carry
StartsWithBl(pname) == pname \in {"bl_idname", "bl_label", "bl_description"}

\* the properties generate_from_pattern keeps on the add_node line
FilterProps(props) ==
    SelectSeq(props, LAMBDA e : /\ ~StartsWithBl(e[1])
                                /\ e[1] \notin {"color_tag", "warning_propagation",
                                                "location_absolute"})

\* the keys of node_vars after the loop over nodes_used
PatNames(nodes_used) == {NodeName(nodes_used[i]) : i \in DOMAIN nodes_used}

\* node_vars[name]: a later node of the same name overwrites the entry
PatVar(nodes_used, name) ==
    VarName(Max({i \in DOMAIN nodes_used : NodeName(nodes_used[i]) = name}, 1) - 1)

FromVar(nodes_used, from_node) ==
    IF from_node = "Group Input" THEN "gin"
    ELSE IF from_node \in PatNames(nodes_used) THEN PatVar(nodes_used, from_node)
    ELSE "tree.nodes[" \o from_node \o "]"

ToVar(nodes_used, to_node) ==
    IF to_node = "Group Output" THEN "gout"
    ELSE IF to_node \in PatNames(nodes_used) THEN PatVar(nodes_used, to_node)
    ELSE "tree.nodes[" \o to_node \o "]"

\* the lines written for the node at index i (Python index i - 1)
PatNodeBlock(nodes_used, i) ==
    LET node == nodes_used[i]
        var == VarName(i - 1)
        props == FilterProps(node.properties)
        ds == SelectSeq(node.input_defaults, LAMBDA e : e[2][1] \in {"list", "scalar"})
    IN  <<  <<"comment", NodeName(node)>>,
            <<"add_node", var, node.type, (i - 1) * 250, 0,
              [k \in DOMAIN props |-> <<props[k][1], <<"repr", props[k][2][2]>>>>]>>  >>
        \o [k \in DOMAIN ds |->
              <<"set_default", var, ds[k][1],
                IF ds[k][2][1] = "list" THEN <<"tuple", ds[k][2][2]>>
                                        ELSE <<"str", ds[k][2][2]>>>>]
        \o << <<"blank">> >>

PatLinkLines(p) ==
    [i \in DOMAIN p.links |->
        <<"link", FromVar(p.nodes_used, p.links[i].from_node), p.links[i].from_socket,
                  ToVar(p.nodes_used, p.links[i].to_node), p.links[i].to_socket>>]

\* an adapter that writes the wires of a node right after the node's block
PatternLinesWiresInBlocks(p) ==
    <<  <<"def">>, <<"doc">>, <<"create_node_tree">>, <<"blank">>  >>
    \o Flatten([i \in DOMAIN p.nodes_used |->
                    PatNodeBlock(p.nodes_used, i)
                    \o SelectSeq(PatLinkLines(p), LAMBDA l : l[2] = VarName(i - 1))])
    \o <<  <<"comment", "Wire connections">>  >>
    \o SelectSeq(PatLinkLines(p),
                 LAMBDA l : \A i \in DOMAIN p.nodes_used : l[2] # VarName(i - 1))
    \o <<  <<"blank">>, <<"return">>  >>

\* the lines generate_from_pattern(pattern, description, kb) returns
PatternLines(p) ==
    <<  <<"def">>, <<"doc">>, <<"create_node_tree">>, <<"blank">>  >>
    \o Flatten([i \in DOMAIN p.nodes_used |-> PatNodeBlock(p.nodes_used, i)])
    \o <<  <<"comment", "Wire connections">>  >>
    \o PatLinkLines(p)
    \o <<  <<"blank">>, <<"return">>  >>

\* generate_script's pattern branch: the best exemplar is replayed
GenerateFromPattern ==
    /\ pc = "context"
    /\ example_patterns # <<>>
    /\ out' = PatternLines(example_patterns[1])
    /\ method' = "pattern:" \o example_patterns[1].name
    /\ pc' = "done"
    /\ UNCHANGED <<request, context, nodes, links, defaults, properties, var_counter,
                   emits, ops, late_prop, used_idiom>>

\* ----------------------------------------------- exemplars for the adapter
MaxPatNodes == 2   \* nodes of an exemplar
MaxPatLinks == 2   \* edges of an exemplar

PatNodeChoices ==
    { PatNode("GeometryNodeMeshCube", "Cube",
              << <<"bl_idname", <<"str", "GeometryNodeMeshCube">>>>,
                 <<"color_tag", <<"str", "GEOMETRY">>>>,
                 <<"mode", <<"str", "FACES">>>> >>,
              << <<"Size", <<"list", "1,1,1">>>>,
                 <<"Name", <<"str", "cube">>>>,
                 <<"Vertices X", <<"scalar", "2">>>> >>),
      PatNode("GeometryNodeSubdivideMesh", "Cube", <<>>,
              << <<"Level", <<"scalar", "1">>>> >>),
      PatNode("GeometryNodeSetPosition", "None", <<>>, <<>>) }

FromNames == {"Group Input", "Group Output", "Cube", "Ghost"}
ToNames == {"Group Output", "Cube", "GeometryNodeSetPosition", "Ghost"}

PatLinkChoices ==
    {PatLink(f, "Geometry", t, "Geometry") : f \in FromNames, t \in ToNames}

RECURSIVE SeqsUpTo(_, _)
\* the sequences of at most n elements of S
SeqsUpTo(S, n) ==
    IF n = 0 THEN {<<>>}
    ELSE LET prev == SeqsUpTo(S, n - 1)
         IN  prev \cup {Append(q, x) : q \in prev, x \in S}

Exemplars ==
    {Pattern("exemplar", "", ns, ls) :
        ns \in SeqsUpTo(PatNodeChoices, MaxPatNodes),
        ls \in SeqsUpTo(PatLinkChoices, MaxPatLinks)}

InitPattern ==
    /\ kb = <<>> /\ kb_patterns = <<>> /\ kb_connections = <<>>
    /\ description = <<>> /\ max_nodes = 15 /\ connection_rules = <<>>
    /\ search_terms = {} /\ matched = <<>> /\ method = "None"
    /\ nodes = <<>> /\ links = <<>> /\ defaults = <<>> /\ properties = <<>>
    /\ var_counter = 0
    /\ out = <<>> /\ emits = 0 /\ ops = 0
    /\ late_prop = FALSE
    /\ pc = "context" /\ used_idiom = "None"
    /\ \E p \in Exemplars : example_patterns = <<p>>

NextPattern == GenerateFromPattern

SpecPattern == InitPattern /\ [][NextPattern]_vars

\* ===================================================================
\* Retrieval (context_builder.py)
\* ===================================================================
\* A str that is searched or tokenised is read as the sequence of its
\* characters, each a one-character string; StrChars gives the characters of
\* the strings that occur in the documents below.
\* TERM_MAP, in dict order: <<key, mapped terms>>
TERM_MAP ==
    <<
      <<"scatter", <<"distribute", "instance", "points">>>>,
      <<"rocks", <<"instance", "ico sphere", "cube">>>>,
      <<"trees", <<"instance", "collection">>>>,
      <<"random", <<"random", "noise", "distribute">>>>,
      <<"smooth", <<"shade smooth", "subdivide", "subdivision">>>>,
      <<"subdivide", <<"subdivide", "subdivision">>>>,
      <<"boolean", <<"boolean", "intersect", "difference", "union">>>>,
      <<"subtract", <<"boolean", "difference">>>>,
      <<"cut", <<"boolean", "difference">>>>,
      <<"merge", <<"join", "merge", "boolean union">>>>,
      <<"deform", <<"set position", "noise", "displacement">>>>,
      <<"displace", <<"set position", "noise texture", "displacement">>>>,
      <<"noise", <<"noise", "random">>>>,
      <<"extrude", <<"extrude">>>>,
      <<"array", <<"instance", "duplicate">>>>,
      <<"duplicate", <<"duplicate", "instance">>>>,
      <<"curve", <<"curve", "bezier", "spline">>>>,
      <<"sweep", <<"curve to mesh", "profile">>>>,
      <<"pipe", <<"curve to mesh", "curve circle">>>>,
      <<"text", <<"string to curves">>>>,
      <<"particles", <<"distribute", "instance", "points">>>>,
      <<"hair", <<"distribute", "curve", "interpolate">>>>,
      <<"color", <<"material", "color", "rgba">>>>,
      <<"material", <<"material", "set material">>>>,
      <<"volume", <<"volume", "mesh to volume">>>>,
      <<"grid", <<"grid", "mesh grid">>>>,
      <<"sphere", <<"uv sphere", "ico sphere">>>>,
      <<"cylinder", <<"cylinder">>>>,
      <<"cone", <<"cone">>>>,
      <<"circle", <<"circle">>>>,
      <<"triangulate", <<"triangulate">>>>,
      <<"flip", <<"flip faces">>>>,
      <<"scale", <<"scale", "transform">>>>,
      <<"rotate", <<"rotate", "transform">>>>,
      <<"move", <<"translate", "set position", "transform">>>>,
      <<"join", <<"join geometry">>>>,
      <<"separate", <<"separate", "delete">>>>,
      <<"delete", <<"delete geometry">>>>,
      <<"proximity", <<"proximity">>>>,
      <<"raycast", <<"raycast">>>>,
      <<"fill", <<"fill curve">>>>,
      <<"convex", <<"convex hull">>>>,
      <<"bounding", <<"bounding box">>>>
    >>

\* the characters of the strings found in the KB documents below
StrChars ==
    ("GeometryNodeMeshCube" :> <<"G", "e", "o", "m", "e", "t", "r", "y", "N", "o", "d", "e", "M", "e", "s", "h", "C", "u", "b", "e">>) @@
    ("Cube" :> <<"C", "u", "b", "e">>) @@
    ("mesh" :> <<"m", "e", "s", "h">>) @@
    ("Size" :> <<"S", "i", "z", "e">>) @@
    ("Mesh" :> <<"M", "e", "s", "h">>) @@
    ("GeometryNodeSubdivideMesh" :> <<"G", "e", "o", "m", "e", "t", "r", "y", "N", "o", "d", "e", "S", "u", "b", "d", "i", "v", "i", "d", "e", "M", "e", "s", "h">>) @@
    ("Subdivide Mesh" :> <<"S", "u", "b", "d", "i", "v", "i", "d", "e", " ", "M", "e", "s", "h">>) @@
    ("Level" :> <<"L", "e", "v", "e", "l">>) @@
    ("GeometryNodeDistributePointsOnFaces" :> <<"G", "e", "o", "m", "e", "t", "r", "y", "N", "o", "d", "e", "D", "i", "s", "t", "r", "i", "b", "u", "t", "e", "P", "o", "i", "n", "t", "s", "O", "n", "F", "a", "c", "e", "s">>) @@
    ("Distribute Points on Faces" :> <<"D", "i", "s", "t", "r", "i", "b", "u", "t", "e", " ", "P", "o", "i", "n", "t", "s", " ", "o", "n", " ", "F", "a", "c", "e", "s">>) @@
    ("points" :> <<"p", "o", "i", "n", "t", "s">>) @@
    ("Density" :> <<"D", "e", "n", "s", "i", "t", "y">>) @@
    ("Points" :> <<"P", "o", "i", "n", "t", "s">>) @@
    ("GeometryNodeInstanceOnPoints" :> <<"G", "e", "o", "m", "e", "t", "r", "y", "N", "o", "d", "e", "I", "n", "s", "t", "a", "n", "c", "e", "O", "n", "P", "o", "i", "n", "t", "s">>) @@
    ("Instance on Points" :> <<"I", "n", "s", "t", "a", "n", "c", "e", " ", "o", "n", " ", "P", "o", "i", "n", "t", "s">>) @@
    ("instances" :> <<"i", "n", "s", "t", "a", "n", "c", "e", "s">>) @@
    ("Instance" :> <<"I", "n", "s", "t", "a", "n", "c", "e">>) @@
    ("Instances" :> <<"I", "n", "s", "t", "a", "n", "c", "e", "s">>) @@
    ("GeometryNodeJoinGeometry" :> <<"G", "e", "o", "m", "e", "t", "r", "y", "N", "o", "d", "e", "J", "o", "i", "n", "G", "e", "o", "m", "e", "t", "r", "y">>) @@
    ("Join Geometry" :> <<"J", "o", "i", "n", " ", "G", "e", "o", "m", "e", "t", "r", "y">>) @@
    ("geometry" :> <<"g", "e", "o", "m", "e", "t", "r", "y">>) @@
    ("Geometry" :> <<"G", "e", "o", "m", "e", "t", "r", "y">>) @@
    ("GeometryNodeRealizeInstances" :> <<"G", "e", "o", "m", "e", "t", "r", "y", "N", "o", "d", "e", "R", "e", "a", "l", "i", "z", "e", "I", "n", "s", "t", "a", "n", "c", "e", "s">>) @@
    ("Realize Instances" :> <<"R", "e", "a", "l", "i", "z", "e", " ", "I", "n", "s", "t", "a", "n", "c", "e", "s">>) @@
    ("GeometryNodeSetPosition" :> <<"G", "e", "o", "m", "e", "t", "r", "y", "N", "o", "d", "e", "S", "e", "t", "P", "o", "s", "i", "t", "i", "o", "n">>) @@
    ("Set Position" :> <<"S", "e", "t", " ", "P", "o", "s", "i", "t", "i", "o", "n">>) @@
    ("Offset" :> <<"O", "f", "f", "s", "e", "t">>) @@
    ("GeometryNodeMeshBoolean" :> <<"G", "e", "o", "m", "e", "t", "r", "y", "N", "o", "d", "e", "M", "e", "s", "h", "B", "o", "o", "l", "e", "a", "n">>) @@
    ("Mesh Boolean" :> <<"M", "e", "s", "h", " ", "B", "o", "o", "l", "e", "a", "n">>) @@
    ("Mesh 1" :> <<"M", "e", "s", "h", " ", "1">>) @@
    ("Mesh 2" :> <<"M", "e", "s", "h", " ", "2">>) @@
    ("GeometryNodeCurveToMesh" :> <<"G", "e", "o", "m", "e", "t", "r", "y", "N", "o", "d", "e", "C", "u", "r", "v", "e", "T", "o", "M", "e", "s", "h">>) @@
    ("Curve to Mesh" :> <<"C", "u", "r", "v", "e", " ", "t", "o", " ", "M", "e", "s", "h">>) @@
    ("curve" :> <<"c", "u", "r", "v", "e">>) @@
    ("Curve" :> <<"C", "u", "r", "v", "e">>) @@
    ("Profile Curve" :> <<"P", "r", "o", "f", "i", "l", "e", " ", "C", "u", "r", "v", "e">>) @@
    ("Fill Caps" :> <<"F", "i", "l", "l", " ", "C", "a", "p", "s">>) @@
    ("GeometryNodeCurvePrimitiveCircle" :> <<"G", "e", "o", "m", "e", "t", "r", "y", "N", "o", "d", "e", "C", "u", "r", "v", "e", "P", "r", "i", "m", "i", "t", "i", "v", "e", "C", "i", "r", "c", "l", "e">>) @@
    ("Curve Circle" :> <<"C", "u", "r", "v", "e", " ", "C", "i", "r", "c", "l", "e">>) @@
    ("Radius" :> <<"R", "a", "d", "i", "u", "s">>) @@
    ("ShaderNodeMath" :> <<"S", "h", "a", "d", "e", "r", "N", "o", "d", "e", "M", "a", "t", "h">>) @@
    ("Math" :> <<"M", "a", "t", "h">>) @@
    ("utility" :> <<"u", "t", "i", "l", "i", "t", "y">>) @@
    ("Value" :> <<"V", "a", "l", "u", "e">>) @@
    ("GeometryNodeObjectInfo" :> <<"G", "e", "o", "m", "e", "t", "r", "y", "N", "o", "d", "e", "O", "b", "j", "e", "c", "t", "I", "n", "f", "o">>) @@
    ("Object Info" :> <<"O", "b", "j", "e", "c", "t", " ", "I", "n", "f", "o">>) @@
    ("input" :> <<"i", "n", "p", "u", "t">>) @@
    ("Object" :> <<"O", "b", "j", "e", "c", "t">>) @@
    ("Self Intersection" :> <<"S", "e", "l", "f", " ", "I", "n", "t", "e", "r", "s", "e", "c", "t", "i", "o", "n">>) @@
    ("subdivide_smooth" :> <<"s", "u", "b", "d", "i", "v", "i", "d", "e", "_", "s", "m", "o", "o", "t", "h">>) @@
    ("Subdivides mesh geometry and applies smooth shading" :> <<"S", "u", "b", "d", "i", "v", "i", "d", "e", "s", " ", "m", "e", "s", "h", " ", "g", "e", "o", "m", "e", "t", "r", "y", " ", "a", "n", "d", " ", "a", "p", "p", "l", "i", "e", "s", " ", "s", "m", "o", "o", "t", "h", " ", "s", "h", "a", "d", "i", "n", "g">>) @@
    ("GeometryNodeSetShadeSmooth" :> <<"G", "e", "o", "m", "e", "t", "r", "y", "N", "o", "d", "e", "S", "e", "t", "S", "h", "a", "d", "e", "S", "m", "o", "o", "t", "h">>) @@
    ("Set Shade Smooth" :> <<"S", "e", "t", " ", "S", "h", "a", "d", "e", " ", "S", "m", "o", "o", "t", "h">>) @@
    ("scatter_on_surface" :> <<"s", "c", "a", "t", "t", "e", "r", "_", "o", "n", "_", "s", "u", "r", "f", "a", "c", "e">>) @@
    ("Distributes random points on mesh faces, converts to vertices" :> <<"D", "i", "s", "t", "r", "i", "b", "u", "t", "e", "s", " ", "r", "a", "n", "d", "o", "m", " ", "p", "o", "i", "n", "t", "s", " ", "o", "n", " ", "m", "e", "s", "h", " ", "f", "a", "c", "e", "s", ",", " ", "c", "o", "n", "v", "e", "r", "t", "s", " ", "t", "o", " ", "v", "e", "r", "t", "i", "c", "e", "s">>) @@
    ("GeometryNodePointsToVertices" :> <<"G", "e", "o", "m", "e", "t", "r", "y", "N", "o", "d", "e", "P", "o", "i", "n", "t", "s", "T", "o", "V", "e", "r", "t", "i", "c", "e", "s">>) @@
    ("Points to Vertices" :> <<"P", "o", "i", "n", "t", "s", " ", "t", "o", " ", "V", "e", "r", "t", "i", "c", "e", "s">>) @@
    ("exemplar" :> <<"e", "x", "e", "m", "p", "l", "a", "r">>) @@
    ("None" :> <<"N", "o", "n", "e">>) @@
    ("instance_on_points" :> <<"i", "n", "s", "t", "a", "n", "c", "e", "_", "o", "n", "_", "p", "o", "i", "n", "t", "s">>) @@
    ("Instances small spheres on surface points, then realizes them" :> <<"I", "n", "s", "t", "a", "n", "c", "e", "s", " ", "s", "m", "a", "l", "l", " ", "s", "p", "h", "e", "r", "e", "s", " ", "o", "n", " ", "s", "u", "r", "f", "a", "c", "e", " ", "p", "o", "i", "n", "t", "s", ",", " ", "t", "h", "e", "n", " ", "r", "e", "a", "l", "i", "z", "e", "s", " ", "t", "h", "e", "m">>) @@
    ("GeometryNodeMeshIcoSphere" :> <<"G", "e", "o", "m", "e", "t", "r", "y", "N", "o", "d", "e", "M", "e", "s", "h", "I", "c", "o", "S", "p", "h", "e", "r", "e">>) @@
    ("Ico Sphere" :> <<"I", "c", "o", " ", "S", "p", "h", "e", "r", "e">>) @@
    ("mesh_boolean_difference" :> <<"m", "e", "s", "h", "_", "b", "o", "o", "l", "e", "a", "n", "_", "d", "i", "f", "f", "e", "r", "e", "n", "c", "e">>) @@
    ("Subtracts a sphere from the input mesh using Boolean Difference" :> <<"S", "u", "b", "t", "r", "a", "c", "t", "s", " ", "a", " ", "s", "p", "h", "e", "r", "e", " ", "f", "r", "o", "m", " ", "t", "h", "e", " ", "i", "n", "p", "u", "t", " ", "m", "e", "s", "h", " ", "u", "s", "i", "n", "g", " ", "B", "o", "o", "l", "e", "a", "n", " ", "D", "i", "f", "f", "e", "r", "e", "n", "c", "e">>) @@
    ("GeometryNodeMeshUVSphere" :> <<"G", "e", "o", "m", "e", "t", "r", "y", "N", "o", "d", "e", "M", "e", "s", "h", "U", "V", "S", "p", "h", "e", "r", "e">>) @@
    ("UV Sphere" :> <<"U", "V", " ", "S", "p", "h", "e", "r", "e">>) @@
    ("random_scatter_instances" :> <<"r", "a", "n", "d", "o", "m", "_", "s", "c", "a", "t", "t", "e", "r", "_", "i", "n", "s", "t", "a", "n", "c", "e", "s">>) @@
    ("Scatter cubes on surface with random position offsets, then realize" :> <<"S", "c", "a", "t", "t", "e", "r", " ", "c", "u", "b", "e", "s", " ", "o", "n", " ", "s", "u", "r", "f", "a", "c", "e", " ", "w", "i", "t", "h", " ", "r", "a", "n", "d", "o", "m", " ", "p", "o", "s", "i", "t", "i", "o", "n", " ", "o", "f", "f", "s", "e", "t", "s", ",", " ", "t", "h", "e", "n", " ", "r", "e", "a", "l", "i", "z", "e">>) @@
    ("curve_pipe" :> <<"c", "u", "r", "v", "e", "_", "p", "i", "p", "e">>) @@
    ("Sweeps a circle along a curve to make a pipe mesh" :> <<"S", "w", "e", "e", "p", "s", " ", "a", " ", "c", "i", "r", "c", "l", "e", " ", "a", "l", "o", "n", "g", " ", "a", " ", "c", "u", "r", "v", "e", " ", "t", "o", " ", "m", "a", "k", "e", " ", "a", " ", "p", "i", "p", "e", " ", "m", "e", "s", "h">>) @@
    ("mesh points" :> <<"m", "e", "s", "h", " ", "p", "o", "i", "n", "t", "s">>) @@
    ("scatter" :> <<"s", "c", "a", "t", "t", "e", "r">>) @@
    ("distribute" :> <<"d", "i", "s", "t", "r", "i", "b", "u", "t", "e">>) @@
    ("instance" :> <<"i", "n", "s", "t", "a", "n", "c", "e">>) @@
    ("rocks" :> <<"r", "o", "c", "k", "s">>) @@
    ("ico sphere" :> <<"i", "c", "o", " ", "s", "p", "h", "e", "r", "e">>) @@
    ("cube" :> <<"c", "u", "b", "e">>) @@
    ("trees" :> <<"t", "r", "e", "e", "s">>) @@
    ("collection" :> <<"c", "o", "l", "l", "e", "c", "t", "i", "o", "n">>) @@
    ("random" :> <<"r", "a", "n", "d", "o", "m">>) @@
    ("noise" :> <<"n", "o", "i", "s", "e">>) @@
    ("smooth" :> <<"s", "m", "o", "o", "t", "h">>) @@
    ("shade smooth" :> <<"s", "h", "a", "d", "e", " ", "s", "m", "o", "o", "t", "h">>) @@
    ("subdivide" :> <<"s", "u", "b", "d", "i", "v", "i", "d", "e">>) @@
    ("subdivision" :> <<"s", "u", "b", "d", "i", "v", "i", "s", "i", "o", "n">>) @@
    ("boolean" :> <<"b", "o", "o", "l", "e", "a", "n">>) @@
    ("intersect" :> <<"i", "n", "t", "e", "r", "s", "e", "c", "t">>) @@
    ("difference" :> <<"d", "i", "f", "f", "e", "r", "e", "n", "c", "e">>) @@
    ("union" :> <<"u", "n", "i", "o", "n">>) @@
    ("subtract" :> <<"s", "u", "b", "t", "r", "a", "c", "t">>) @@
    ("cut" :> <<"c", "u", "t">>) @@
    ("merge" :> <<"m", "e", "r", "g", "e">>) @@
    ("join" :> <<"j", "o", "i", "n">>) @@
    ("boolean union" :> <<"b", "o", "o", "l", "e", "a", "n", " ", "u", "n", "i", "o", "n">>) @@
    ("deform" :> <<"d", "e", "f", "o", "r", "m">>) @@
    ("set position" :> <<"s", "e", "t", " ", "p", "o", "s", "i", "t", "i", "o", "n">>) @@
    ("displacement" :> <<"d", "i", "s", "p", "l", "a", "c", "e", "m", "e", "n", "t">>) @@
    ("displace" :> <<"d", "i", "s", "p", "l", "a", "c", "e">>) @@
    ("noise texture" :> <<"n", "o", "i", "s", "e", " ", "t", "e", "x", "t", "u", "r", "e">>) @@
    ("extrude" :> <<"e", "x", "t", "r", "u", "d", "e">>) @@
    ("array" :> <<"a", "r", "r", "a", "y">>) @@
    ("duplicate" :> <<"d", "u", "p", "l", "i", "c", "a", "t", "e">>) @@
    ("bezier" :> <<"b", "e", "z", "i", "e", "r">>) @@
    ("spline" :> <<"s", "p", "l", "i", "n", "e">>) @@
    ("sweep" :> <<"s", "w", "e", "e", "p">>) @@
    ("curve to mesh" :> <<"c", "u", "r", "v", "e", " ", "t", "o", " ", "m", "e", "s", "h">>) @@
    ("profile" :> <<"p", "r", "o", "f", "i", "l", "e">>) @@
    ("pipe" :> <<"p", "i", "p", "e">>) @@
    ("curve circle" :> <<"c", "u", "r", "v", "e", " ", "c", "i", "r", "c", "l", "e">>) @@
    ("text" :> <<"t", "e", "x", "t">>) @@
    ("string to curves" :> <<"s", "t", "r", "i", "n", "g", " ", "t", "o", " ", "c", "u", "r", "v", "e", "s">>) @@
    ("particles" :> <<"p", "a", "r", "t", "i", "c", "l", "e", "s">>) @@
    ("hair" :> <<"h", "a", "i", "r">>) @@
    ("interpolate" :> <<"i", "n", "t", "e", "r", "p", "o", "l", "a", "t", "e">>) @@
    ("color" :> <<"c", "o", "l", "o", "r">>) @@
    ("material" :> <<"m", "a", "t", "e", "r", "i", "a", "l">>) @@
    ("rgba" :> <<"r", "g", "b", "a">>) @@
    ("set material" :> <<"s", "e", "t", " ", "m", "a", "t", "e", "r", "i", "a", "l">>) @@
    ("volume" :> <<"v", "o", "l", "u", "m", "e">>) @@
    ("mesh to volume" :> <<"m", "e", "s", "h", " ", "t", "o", " ", "v", "o", "l", "u", "m", "e">>) @@
    ("grid" :> <<"g", "r", "i", "d">>) @@
    ("mesh grid" :> <<"m", "e", "s", "h", " ", "g", "r", "i", "d">>) @@
    ("sphere" :> <<"s", "p", "h", "e", "r", "e">>) @@
    ("uv sphere" :> <<"u", "v", " ", "s", "p", "h", "e", "r", "e">>) @@
    ("cylinder" :> <<"c", "y", "l", "i", "n", "d", "e", "r">>) @@
    ("cone" :> <<"c", "o", "n", "e">>) @@
    ("circle" :> <<"c", "i", "r", "c", "l", "e">>) @@
    ("triangulate" :> <<"t", "r", "i", "a", "n", "g", "u", "l", "a", "t", "e">>) @@
    ("flip" :> <<"f", "l", "i", "p">>) @@
    ("flip faces" :> <<"f", "l", "i", "p", " ", "f", "a", "c", "e", "s">>) @@
    ("scale" :> <<"s", "c", "a", "l", "e">>) @@
    ("transform" :> <<"t", "r", "a", "n", "s", "f", "o", "r", "m">>) @@
    ("rotate" :> <<"r", "o", "t", "a", "t", "e">>) @@
    ("move" :> <<"m", "o", "v", "e">>) @@
    ("translate" :> <<"t", "r", "a", "n", "s", "l", "a", "t", "e">>) @@
    ("join geometry" :> <<"j", "o", "i", "n", " ", "g", "e", "o", "m", "e", "t", "r", "y">>) @@
    ("separate" :> <<"s", "e", "p", "a", "r", "a", "t", "e">>) @@
    ("delete" :> <<"d", "e", "l", "e", "t", "e">>) @@
    ("delete geometry" :> <<"d", "e", "l", "e", "t", "e", " ", "g", "e", "o", "m", "e", "t", "r", "y">>) @@
    ("proximity" :> <<"p", "r", "o", "x", "i", "m", "i", "t", "y">>) @@
    ("raycast" :> <<"r", "a", "y", "c", "a", "s", "t">>) @@
    ("fill" :> <<"f", "i", "l", "l">>) @@
    ("fill curve" :> <<"f", "i", "l", "l", " ", "c", "u", "r", "v", "e">>) @@
    ("convex" :> <<"c", "o", "n", "v", "e", "x">>) @@
    ("convex hull" :> <<"c", "o", "n", "v", "e", "x", " ", "h", "u", "l", "l">>) @@
    ("bounding" :> <<"b", "o", "u", "n", "d", "i", "n", "g">>) @@
    ("bounding box" :> <<"b", "o", "u", "n", "d", "i", "n", "g", " ", "b", "o", "x">>) @@
    ("xyzzy" :> <<"x", "y", "z", "z", "y">>) @@
    ("Scatter rocks" :> <<"S", "c", "a", "t", "t", "e", "r", " ", "r", "o", "c", "k", "s">>) @@
    ("smooth cube" :> <<"s", "m", "o", "o", "t", "h", " ", "c", "u", "b", "e">>) @@
    ("Subdivided!" :> <<"S", "u", "b", "d", "i", "v", "i", "d", "e", "d", "!">>) @@
    ("Boolean cut" :> <<"B", "o", "o", "l", "e", "a", "n", " ", "c", "u", "t">>) @@
    ("move points" :> <<"m", "o", "v", "e", " ", "p", "o", "i", "n", "t", "s">>) @@
    ("" :> <<>>)

\* the request texts
Descriptions ==
    {
      "",
      "xyzzy",
      "Scatter rocks",
      "smooth cube",
      "join",
      "Subdivided!",
      "Boolean cut",
      "move points"
    }

Chars(s) == StrChars[s]

UPPER == <<"A", "B", "C", "D", "E", "F", "G", "H", "I", "J", "K", "L", "M",
           "N", "O", "P", "Q", "R", "S", "T", "U", "V", "W", "X", "Y", "Z">>
LOWER == <<"a", "b", "c", "d", "e", "f", "g", "h", "i", "j", "k", "l", "m",
           "n", "o", "p", "q", "r", "s", "t", "u", "v", "w", "x", "y", "z">>

LowerOf == [c \in Range(UPPER) |-> LOWER[CHOOSE i \in DOMAIN UPPER : UPPER[i] = c]]

LowerChar(c) == IF c \in DOMAIN LowerOf THEN LowerOf[c] ELSE c

\* str.lower()
Lower(t) == [i \in DOMAIN t |-> LowerChar(t[i])]

\* needle in hay
Contains(hay, needle) ==
    \E k \in 0..(Len(hay) - Len(needle)) : \A j \in DOMAIN needle : hay[k + j] = needle[j]

\* str.replace(" ", "")
RemoveSpaces(t) == SelectSeq(t, LAMBDA c : c # " ")

\* set(re.findall(r'[a-z]+', t)): the maximal runs of lower-case letters
FindAllWords(t) ==
    LET az(i) == t[i] \in Range(LOWER)
    IN  {SubSeq(t, i, j) : <<i, j>> \in
            {ij \in (DOMAIN t) \X (DOMAIN t) :
                /\ ij[1] <= ij[2]
                /\ \A k \in ij[1]..ij[2] : az(k)
                /\ (ij[1] = 1 \/ ~az(ij[1] - 1))
                /\ (ij[2] = Len(t) \/ ~az(ij[2] + 1))}}

\* extract_search_terms(description)
ExtractSearchTerms(desc) ==
    LET desc_lower == Lower(desc)
        words == FindAllWords(desc_lower)
        mapped(e) == {Chars(e[2][i]) : i \in DOMAIN e[2]}
    IN  words
        \cup UNION {mapped(e) : e \in {e \in Range(TERM_MAP) : Chars(e[1]) \in words}}
        \cup UNION {mapped(e) : e \in {e \in Range(TERM_MAP) :
                                          Contains(desc_lower, Chars(e[1]))}}

RECURSIVE SumF(_, _)
\* the sum of f[x] over x in S
SumF(f, S) ==
    IF S = {} THEN 0
    ELSE LET x == CHOOSE x \in S : TRUE IN f[x] + SumF(f, S \ {x})

\* search_nodes: what one term adds to the score of one profile
TermScore(profile, term) ==
    LET term_lower == Lower(term)
        ports == profile.inputs \o profile.outputs
    IN  (IF Contains(Lower(Chars(profile.name)), term_lower) THEN 10 ELSE 0)
        + (IF Contains(Lower(Chars(profile.id)), RemoveSpaces(term_lower)) THEN 5 ELSE 0)
        + 2 * Cardinality({i \in DOMAIN ports :
                              Contains(Lower(Chars(ports[i].name)), term_lower)})
        + (IF Contains(Chars(profile.domain), term_lower) THEN 3 ELSE 0)

NodeScore(profile, terms) == SumF([t \in terms |-> TermScore(profile, t)], terms)

RECURSIVE SetToSeq(_)
\* one enumeration of a set
SetToSeq(S) ==
    IF S = {} THEN <<>>
    ELSE LET x == CHOOSE x \in S : TRUE IN <<x>> \o SetToSeq(S \ {x})

Reverse(s) == [i \in DOMAIN s |-> s[Len(s) + 1 - i]]

\* the orders in which "for term in terms" may visit the set: the iteration
\* order of a set of str depends on the process's string hashing
TermOrders(terms) == {SetToSeq(terms), Reverse(SetToSeq(terms))}

RECURSIVE ScoreLoopFirstOnly(_, _, _)
\* a loop that scores the first term visited and skips the others
ScoreLoopFirstOnly(profile, order, score) ==
    IF order = <<>> THEN score ELSE score + TermScore(profile, Head(order))

RECURSIVE ScoreLoop(_, _, _)
\* search_nodes: the loop "for term in terms" over one profile, from score
ScoreLoop(profile, order, score) ==
    IF order = <<>> THEN score
    ELSE ScoreLoop(profile, Tail(order), score + TermScore(profile, Head(order)))

\* a sort that puts equal scores in reverse list order
SortedIndicesUnstable(scores) ==
    LET rank(i) == Cardinality({j \in DOMAIN scores :
                        scores[j] > scores[i] \/ (scores[j] = scores[i] /\ j > i)})
    IN  [k \in DOMAIN scores |-> CHOOSE i \in DOMAIN scores : rank(i) = k - 1]

\* list.sort(key=-score) on a list whose scores are given: the indices in
\* descending score order, equal scores in list order
SortedIndices(scores) ==
    LET rank(i) == Cardinality({j \in DOMAIN scores :
                        scores[j] > scores[i] \/ (scores[j] = scores[i] /\ j < i)})
    IN  [k \in DOMAIN scores |-> CHOOSE i \in DOMAIN scores : rank(i) = k - 1]

\* search_nodes(kb, terms, max_results): the (nid, score, profile) triples;
\* terms is given as the sequence in which the set is visited
SearchNodes(k, terms, max_results) ==
    LET scored == [i \in DOMAIN k |-> <<k[i].id, ScoreLoop(k[i], terms, 0), k[i]>>]
        results == SelectSeq(scored, LAMBDA r : r[2] > 0)
        order == SortedIndices([i \in DOMAIN results |-> results[i][2]])
    IN  Take([i \in DOMAIN results |-> results[order[i]]], max_results)

\* search_patterns: what one term adds to the score of one exemplar
PatTermScore(p, term) ==
    LET term_lower == Lower(term)
        nu == p.nodes_used
    IN  (IF Contains(Lower(Chars(p.description)), term_lower) THEN 5 ELSE 0)
        + (IF Contains(Lower(Chars(p.name)), term_lower) THEN 10 ELSE 0)
        + 3 * Cardinality({i \in DOMAIN nu : Contains(Lower(Chars(nu[i].type)), term_lower)})
        + 3 * Cardinality({i \in DOMAIN nu :
                              Contains(Lower(Chars(Or(nu[i].name, ""))), term_lower)})

PatScore(p, terms) == SumF([t \in terms |-> PatTermScore(p, t)], terms)

RECURSIVE PatScoreLoop(_, _, _)
\* search_patterns: the loop "for term in terms" over one exemplar, from score
PatScoreLoop(p, order, score) ==
    IF order = <<>> THEN score
    ELSE PatScoreLoop(p, Tail(order), score + PatTermScore(p, Head(order)))

PatternMax == 5

\* search_patterns(kb, terms); terms is given as the sequence in which the set
\* is visited
SearchPatterns(ps, terms) ==
    LET scored == [i \in DOMAIN ps |-> <<PatScoreLoop(ps[i], terms, 0), ps[i]>>]
        results == SelectSeq(scored, LAMBDA r : r[1] > 0)
        order == SortedIndices([i \in DOMAIN results |-> results[i][1]])
    IN  Take([i \in DOMAIN results |-> results[order[i]][2]], PatternMax)

\* build_context: the socket types of the retrieved profiles, and GEOMETRY
SocketTypesUsed(node_matches) ==
    UNION {{p.type : p \in Range(node_matches[i][3].inputs)
                          \cup Range(node_matches[i][3].outputs)} :
           i \in DOMAIN node_matches}
    \cup {"GEOMETRY"}

\* build_context: the valid connections that touch a socket type in use
RelevantConnections(conns, node_matches) ==
    SelectSeq(conns, LAMBDA c : \/ c.from \in SocketTypesUsed(node_matches)
                                \/ c.to \in SocketTypesUsed(node_matches))

essential_nodes ==
    <<"GeometryNodeJoinGeometry", "GeometryNodeRealizeInstances", "GeometryNodeSetPosition">>

\* matched_nodes when the essentials loop has no "not in matched_nodes" test:
\* the entry of a retrieved essential is assigned the auto-included spec
MatchedNodesOverwrite(k, node_matches) ==
    LET retrieved == [i \in DOMAIN node_matches |->
                        IF node_matches[i][1] \in Range(essential_nodes)
                        THEN EssentialSpec(node_matches[i][3])
                        ELSE RetrievedSpec(node_matches[i][3])]
        missing == SelectSeq(essential_nodes,
                             LAMBDA eid : eid \notin Ids(retrieved) /\ eid \in KBIds(k))
    IN  retrieved \o [i \in DOMAIN missing |-> EssentialSpec(KBGet(k, missing[i]))]

\* matched_nodes without the essentials loop: the retrieved specs alone
MatchedNodesNoEssentials(k, node_matches) ==
    [i \in DOMAIN node_matches |-> RetrievedSpec(node_matches[i][3])]

\* build_context: matched_nodes, the retrieved specs and then the essentials
MatchedNodes(k, node_matches) ==
    LET retrieved == [i \in DOMAIN node_matches |-> RetrievedSpec(node_matches[i][3])]
        missing == SelectSeq(essential_nodes,
                             LAMBDA eid : eid \notin Ids(retrieved) /\ eid \in KBIds(k))
    IN  retrieved \o [i \in DOMAIN missing |-> EssentialSpec(KBGet(k, missing[i]))]

\* build_context(kb, description, max_nodes)
BuildContext ==
    /\ pc = "start"
    /\ \E order \in TermOrders(ExtractSearchTerms(description)) :
         LET node_matches == SearchNodes(kb, order, max_nodes)
         IN  /\ search_terms' = Range(order)
             /\ matched' = MatchedNodes(kb, node_matches)
             /\ connection_rules' = RelevantConnections(kb_connections, node_matches)
             /\ example_patterns' = SearchPatterns(kb_patterns, order)
    /\ pc' = "context"
    /\ UNCHANGED <<request, nodes, links, defaults, properties, var_counter, out,
                   emits, ops, late_prop, used_idiom, method>>

\* ------------------------------------------------- requests for generate_script
\* kb["nodes"] in file order; a KB holds any of them, in this order
ScriptKBBase ==
    <<MeshCube, SubdivideMesh, DistributePoints, InstanceOnPoints, JoinGeometry,
      RealizeInstances, SetPosition>>

RECURSIVE SubSeqs(_)
\* the subsequences of s
SubSeqs(s) ==
    IF s = <<>> THEN {<<>>}
    ELSE LET r == SubSeqs(Tail(s)) IN r \cup {<<Head(s)>> \o x : x \in r}

SubdivideSmooth ==
    Pattern("subdivide_smooth", "Subdivides mesh geometry and applies smooth shading",
            << PatNode("GeometryNodeSubdivideMesh", "Subdivide Mesh", <<>>,
                       << <<"Level", <<"scalar", "2">>>> >>),
               PatNode("GeometryNodeSetShadeSmooth", "Set Shade Smooth", <<>>, <<>>) >>,
            << PatLink("Group Input", "Geometry", "Subdivide Mesh", "Mesh"),
               PatLink("Subdivide Mesh", "Mesh", "Set Shade Smooth", "Geometry"),
               PatLink("Set Shade Smooth", "Geometry", "Group Output", "Geometry") >>)

ScatterOnSurface ==
    Pattern("scatter_on_surface",
            "Distributes random points on mesh faces, converts to vertices",
            << PatNode("GeometryNodeDistributePointsOnFaces", "Distribute Points on Faces",
                       <<>>, << <<"Density", <<"scalar", "10.0">>>> >>),
               PatNode("GeometryNodePointsToVertices", "Points to Vertices", <<>>, <<>>) >>,
            << PatLink("Group Input", "Geometry", "Distribute Points on Faces", "Mesh"),
               PatLink("Distribute Points on Faces", "Points", "Points to Vertices", "Points"),
               PatLink("Points to Vertices", "Mesh", "Group Output", "Geometry") >>)

PatternLibraries ==
    {<<>>, <<SubdivideSmooth>>, <<SubdivideSmooth, ScatterOnSurface>>,
     <<ScatterOnSurface, SubdivideSmooth>>}

Conn(from, to) == [from |-> from, to |-> to, valid |-> TRUE]

\* kb["connections"]["valid_connections"]
ValidConnections ==
    <<Conn("GEOMETRY", "GEOMETRY"), Conn("VALUE", "INT"), Conn("INT", "VALUE"),
      Conn("VALUE", "VECTOR"), Conn("VECTOR", "VECTOR"), Conn("OBJECT", "OBJECT")>>

MaxNodesChoices == {1, 15}

\* ------------------------------------------------- requests for the searches
InstanceOnPointsPattern ==
    Pattern("instance_on_points",
            "Instances small spheres on surface points, then realizes them",
            << PatNode("GeometryNodeMeshIcoSphere", "Ico Sphere", <<>>, <<>>),
               PatNode("GeometryNodeInstanceOnPoints", "Instance on Points", <<>>, <<>>) >>,
            << PatLink("Group Input", "Geometry", "Instance on Points", "Points"),
               PatLink("Ico Sphere", "Mesh", "Instance on Points", "Instance"),
               PatLink("Instance on Points", "Instances", "Group Output", "Geometry") >>)

MeshBooleanDifference ==
    Pattern("mesh_boolean_difference",
            "Subtracts a sphere from the input mesh using Boolean Difference",
            << PatNode("GeometryNodeMeshUVSphere", "UV Sphere", <<>>, <<>>),
               PatNode("GeometryNodeMeshBoolean", "Mesh Boolean", <<>>, <<>>) >>,
            << PatLink("Group Input", "Geometry", "Mesh Boolean", "Mesh 1"),
               PatLink("UV Sphere", "Mesh", "Mesh Boolean", "Mesh 2"),
               PatLink("Mesh Boolean", "Mesh", "Group Output", "Geometry") >>)

RandomScatterInstances ==
    Pattern("random_scatter_instances",
            "Scatter cubes on surface with random position offsets, then realize",
            << PatNode("GeometryNodeDistributePointsOnFaces", "Distribute Points on Faces",
                       <<>>, <<>>),
               PatNode("GeometryNodeMeshCube", "Cube", <<>>, <<>>) >>,
            << PatLink("Group Input", "Geometry", "Distribute Points on Faces", "Mesh"),
               PatLink("Distribute Points on Faces", "Points", "Group Output", "Geometry") >>)

CurvePipe ==
    Pattern("curve_pipe", "Sweeps a circle along a curve to make a pipe mesh",
            << PatNode("GeometryNodeCurvePrimitiveCircle", "Curve Circle", <<>>, <<>>),
               PatNode("GeometryNodeCurveToMesh", "Curve to Mesh", <<>>, <<>>) >>,
            << PatLink("Group Input", "Geometry", "Curve to Mesh", "Curve"),
               PatLink("Curve Circle", "Curve", "Curve to Mesh", "Profile Curve"),
               PatLink("Curve to Mesh", "Mesh", "Group Output", "Geometry") >>)

\* a library with more exemplars than search_patterns returns
FullLibrary ==
    <<SubdivideSmooth, ScatterOnSurface, InstanceOnPointsPattern, MeshBooleanDifference,
      RandomScatterInstances, CurvePipe>>

SearchDescriptions ==
    {"mesh", "mesh points", "Scatter rocks", "smooth cube", "join", "xyzzy", "Subdivided!"}

SearchCeilings == {1, 2, 3, 15}

MinSearchKB == 5   \* the KBs searched hold at least this many operators

InitSearch ==
    /\ kb \in {k \in SubSeqs(ScriptKBBase) : Len(k) >= MinSearchKB}
    /\ kb_patterns \in {<<>>, FullLibrary, Reverse(FullLibrary)}
    /\ kb_connections = ValidConnections
    /\ description \in {Chars(d) : d \in SearchDescriptions}
    /\ max_nodes \in SearchCeilings
    /\ search_terms = {} /\ matched = <<>> /\ example_patterns = <<>>
    /\ connection_rules = <<>> /\ method = "None"
    /\ nodes = <<>> /\ links = <<>> /\ defaults = <<>> /\ properties = <<>>
    /\ var_counter = 0
    /\ out = <<>> /\ emits = 0 /\ ops = 0
    /\ late_prop = FALSE
    /\ pc = "start" /\ used_idiom = "None"

\* build_context alone: extract_search_terms, search_nodes, search_patterns
NextSearch == BuildContext

SpecSearch == InitSearch /\ [][NextSearch]_vars

InitScript ==
    /\ kb \in SubSeqs(ScriptKBBase)
    /\ kb_patterns \in PatternLibraries
    /\ kb_connections = ValidConnections
    /\ description \in {Chars(d) : d \in Descriptions}
    /\ max_nodes \in MaxNodesChoices
    /\ search_terms = {} /\ matched = <<>> /\ example_patterns = <<>>
    /\ connection_rules = <<>> /\ method = "None"
    /\ nodes = <<>> /\ links = <<>> /\ defaults = <<>> /\ properties = <<>>
    /\ var_counter = 0
    /\ out = <<>> /\ emits = 0 /\ ops = 0
    /\ late_prop = FALSE
    /\ pc = "start" /\ used_idiom = "None"

\* generate_script(description, kb): build_context, then one of the generators
NextScript ==
    \/ BuildContext
    \/ GenerateFromPattern
    \/ GenerateCompositional

SpecScript == InitScript /\ [][NextScript]_vars

\* ===================================================================
\* Properties of the builder (specification Spec)
\* ===================================================================
\* the declared ports of the node a variable names, read from the KB profile
\* of its type; the pseudo-nodes have the single port "Geometry"
GeoPort == <<Port("Geometry", "GEOMETRY")>>

OutPortsOf(ns, var) ==
    IF var = "gin" THEN GeoPort
    ELSE IF VarToType(ns, var) \in KBIds(kb) THEN KBGet(kb, VarToType(ns, var)).outputs
    ELSE <<>>

InPortsOf(ns, var) ==
    IF var = "gout" THEN GeoPort
    ELSE IF VarToType(ns, var) \in KBIds(kb) THEN KBGet(kb, VarToType(ns, var)).inputs
    ELSE <<>>

PortTypes(ports, name) == {ports[i].type : i \in {j \in DOMAIN ports : ports[j].name = name}}

ResourceTypes == {"GEOMETRY", "OBJECT", "COLLECTION", "IMAGE", "MATERIAL"}

IsLine(l, kind) == l[1] = kind

\* C1: in the lines emit() returns, every property assignment of a node comes
\* strictly before every wire that mentions that node as source or destination.
C1_PropsBeforeWires ==
    \A i \in DOMAIN out : \A j \in DOMAIN out :
        ( /\ IsLine(out[i], "set_prop")
          /\ IsLine(out[j], "link")
          /\ (out[j][2] = out[i][2] \/ out[j][4] = out[i][2]) ) => i < j

\* C1 witness: emit() has run on a builder where a set_prop was called after a
\* wire on the same node, and both the assignment and the wire are in the output.
C1_Witness ==
    /\ emits >= 1 /\ late_prop
    /\ \E i \in DOMAIN out : \E j \in DOMAIN out :
          /\ IsLine(out[i], "set_prop") /\ IsLine(out[j], "link")
          /\ (out[j][2] = out[i][2] \/ out[j][4] = out[i][2])

RealizeCount(ns) == Cardinality({i \in DOMAIN ns : ns[i][2] = REALIZE})

IsProducer(ns, var) == VarToType(ns, var) \in _INSTANCE_PRODUCING_NODES

\* the edges that wire an instance-producing node directly to Output
OffendingEdges(ns, ls) == {i \in DOMAIN ls : ls[i][3] = "gout" /\ IsProducer(ns, ls[i][1])}

RECURSIVE ReachSet(_, _)
\* the node variables reachable from the set S along the edges ls
ReachSet(ls, S) ==
    LET T == S \cup {ls[i][3] : i \in {j \in DOMAIN ls : ls[j][1] \in S}}
    IN  IF T = S THEN S ELSE ReachSet(ls, T)

\* every instance-producing node has a realize node downstream of it
RealizeDownstreamOfAll(ns, ls) ==
    \A i \in DOMAIN ns :
        IsProducer(ns, ns[i][1]) =>
            \E r \in ReachSet(ls, {ns[i][1]}) : VarToType(ns, r) = REALIZE

\* C2: repair idempotence.  An emit() on a graph with a realize node downstream
\* of every instance-producing node inserts none; an emit() on a graph with no
\* realize node and with offending edges inserts exactly one, for the whole
\* group of offending edges; a second emit() changes neither nodes nor edges.
C2_RepairIdempotent ==
    [][ (emits' = emits + 1) =>
          /\ RealizeDownstreamOfAll(nodes, links) => nodes' = nodes
          /\ (RealizeCount(nodes) = 0 /\ OffendingEdges(nodes, links) # {}) =>
                (RealizeCount(nodes') = 1 /\ Len(nodes') = Len(nodes) + 1)
          /\ emits >= 1 => (nodes' = nodes /\ links' = links) ]_vars

\* C2 witness: emit() was called twice on a builder with two offending edges;
\* the repair has added its node and its edge once.
C2_Witness ==
    /\ emits = 2
    /\ RealizeCount(nodes) = 1
    /\ Len(nodes) + Len(links) + Len(properties) + Len(defaults) = ops + 2
    /\ Cardinality({i \in DOMAIN links : links[i][3] = VarName(var_counter - 1)}) = 2

\* C4 (as claimed): wire() rejects an edge between two distinct resource types,
\* so no such edge is ever recorded in the graph.
C4_NoCrossResourceEdge ==
    \A i \in DOMAIN links :
        \A t1 \in PortTypes(OutPortsOf(nodes, links[i][1]), links[i][2]) :
            \A t2 \in PortTypes(InPortsOf(nodes, links[i][3]), links[i][4]) :
                ~(t1 \in ResourceTypes /\ t2 \in ResourceTypes /\ t1 # t2)

\* C10 (as claimed): emit() never returns a wire to a port the named node does
\* not have.
C10_NoWireToUnknownPort ==
    \A i \in DOMAIN out :
        IsLine(out[i], "link") =>
            /\ PortTypes(OutPortsOf(nodes, out[i][2]), out[i][3]) # {}
            /\ PortTypes(InPortsOf(nodes, out[i][4]), out[i][5]) # {}

\* ===================================================================
\* Properties of generate_compositional (specification SpecGen)
\* ===================================================================
RECURSIVE EdgePaths(_, _, _, _)
\* the directed paths from a to b along the edges ls that visit no node twice,
\* each as the sequence of the indices of its edges
EdgePaths(ls, a, b, seen) ==
    IF a = b THEN {<<>>}
    ELSE UNION { {<<i>> \o p : p \in EdgePaths(ls, ls[i][3], b, seen \cup {ls[i][3]})} :
                 i \in {j \in DOMAIN ls : ls[j][1] = a /\ ls[j][3] \notin seen} }

InputOutputPaths == EdgePaths(links, "gin", "gout", {"gin"})

\* the nodes a path goes through, in order, without the pseudo-nodes
PathNodes(p) == [i \in 1..(Len(p) - 1) |-> links[p[i]][3]]

NodeTypes == [i \in DOMAIN nodes |-> nodes[i][2]]

Triggered(i) == IDIOMS[i].trigger_nodes \subseteq Ids(matched)

\* C3 (as claimed): the finished graph of generate_compositional has a directed
\* path of edges from the Input pseudo-node to the Output pseudo-node.
C3_InputReachesOutput ==
    pc = "done" => "gout" \in ReachSet(links, {"gin"})

\* C5: when the trigger sets of several idioms are in the candidate set, the
\* idiom selected is the earliest of them in IDIOMS and the graph is the one
\* its builder alone builds from an empty graph, whatever the order of the
\* candidates.
C5_IdiomPriority ==
    pc = "done" =>
        \A i \in DOMAIN IDIOMS :
            (Triggered(i) /\ \A j \in 1..(i - 1) : ~Triggered(j)) =>
                /\ used_idiom = IDIOMS[i].name
                /\ CurDag = EnsureRealizeInstances(
                                RunBuilder(IDIOMS[i].name, EmptyDag, matched))

\* C5 witness: a finished request whose candidates trigger two idioms, the
\* later of which comes first among the candidates.
C5_Witness ==
    /\ pc = "done" /\ Len(matched) >= 2
    /\ matched[1].id = JOIN /\ matched[2].id = BOOL
    /\ used_idiom = "boolean_op"
    /\ \E i \in DOMAIN nodes : nodes[i][2] = BOOL

\* C6: the fan-in-merge builder with no generator-role candidate leaves exactly
\* one edge, Input.Geometry -> Output.Geometry, and no real node.
C6_MergeOfOneIsNoOp ==
    (pc = "done" /\ used_idiom = "join_geometry"
        /\ \A i \in DOMAIN matched : matched[i].role # "generator")
    => (nodes = <<>> /\ links = << <<"gin", "Geometry", "gout", "Geometry">> >>)

\* C6 witness: the merge builder ran on candidates without a generator.
C6_Witness ==
    /\ pc = "done" /\ used_idiom = "join_geometry"
    /\ \A i \in DOMAIN matched : matched[i].role # "generator"
    /\ Len(matched) = 3
    /\ out # <<>>

ScatterCase == pc = "done" /\ {DPF, IOP} \subseteq Ids(matched)

\* C8 (as claimed): with both scatter operators retrieved the graph has at
\* least 5 real nodes and exactly one Input-Output path, through all of them.
C8_ScatterAsClaimed ==
    ScatterCase =>
        /\ used_idiom = "scatter_instances"
        /\ Len(nodes) >= 5
        /\ Cardinality(InputOutputPaths) = 1
        /\ \A p \in InputOutputPaths : Range(PathNodes(p)) = NodeVars

\* C8 (amended): with both scatter operators retrieved the scatter idiom is
\* selected; the graph has exactly 4 real nodes, in creation order distribute,
\* instance source, instance, realize; there is exactly one Input-Output path,
\* Input -> distribute -> instance -> realize -> Output; the instance source is
\* not on it: its only edge goes into the instance node.
C8_ScatterShape ==
    ScatterCase =>
        /\ used_idiom = "scatter_instances"
        /\ Len(nodes) = 4
        /\ NodeTypes[1] = DPF /\ NodeTypes[3] = IOP /\ NodeTypes[4] = REALIZE
        /\ Cardinality(InputOutputPaths) = 1
        /\ \A p \in InputOutputPaths : PathNodes(p) = <<"node_0", "node_2", "node_3">>
        /\ \A i \in DOMAIN links : links[i][3] # "node_1"
        /\ \A i \in DOMAIN links : links[i][1] = "node_1" => links[i][3] = "node_2"

\* C8 witness: the scatter builder ran without a realize operator among the
\* candidates, and the repair pass inserted the realize node.
C8_Witness ==
    /\ ScatterCase /\ REALIZE \notin Ids(matched)
    /\ Len(nodes) = 4 /\ nodes[4][2] = REALIZE
    /\ \E i \in DOMAIN links : links[i] = <<"node_3", "Geometry", "gout", "Geometry">>

\* ===================================================================
\* Properties of generate_from_pattern (specification SpecPattern)
\* ===================================================================
\* the edges of an exemplar with an endpoint name that is neither a reserved
\* pseudo-node name nor the name of one of its nodes
UnknownEndpointEdges(p) ==
    {i \in DOMAIN p.links :
        \/ p.links[i].from_node \notin {"Group Input", "Group Output"} \cup PatNames(p.nodes_used)
        \/ p.links[i].to_node \notin {"Group Input", "Group Output"} \cup PatNames(p.nodes_used)}

\* C9 (as claimed): replaying an exemplar with an edge to an unknown endpoint
\* is fatal, so the adapter returns no instruction sequence for it.
C9_UnknownEndpointIsFatal ==
    (pc = "done" /\ example_patterns # <<>>
        /\ UnknownEndpointEdges(example_patterns[1]) # {}) => out = <<>>

\* ===================================================================
\* Properties of generate_script (specification SpecScript)
\* ===================================================================
\* no operator and no exemplar of the KB scores above zero for the request
RetrievalMiss ==
    LET terms == ExtractSearchTerms(description)
    IN  /\ \A i \in DOMAIN kb : NodeScore(kb[i], terms) = 0
        /\ \A i \in DOMAIN kb_patterns : PatScore(kb_patterns[i], terms) = 0

\* C7 (as claimed): on a retrieval miss the finished graph has exactly one real
\* node, the fixed default operator, and exactly the two edges Input -> node
\* and node -> Output.
C7_RetrievalMissDefaultChain ==
    (pc = "done" /\ RetrievalMiss) =>
        /\ method = "compositional"
        /\ Len(nodes) = 1
        /\ nodes[1][2] = DefaultChainSpec.id
        /\ Len(links) = 2
        /\ links[1][1] = "gin" /\ links[1][3] = nodes[1][1]
        /\ links[2][1] = nodes[1][1] /\ links[2][3] = "gout"

\* the context build_context returns when the term set is visited in one
\* fixed order, and the result the generators return from it
Retrieved == SearchNodes(kb, SetToSeq(ExtractSearchTerms(description)), max_nodes)

FixedOrderContext ==
    <<ExtractSearchTerms(description),
      MatchedNodes(kb, Retrieved),
      SearchPatterns(kb_patterns, SetToSeq(ExtractSearchTerms(description))),
      RelevantConnections(kb_connections, Retrieved)>>

\* C11: determinism.  Whatever order the term set is visited in, the context
\* (terms, matched operators and exemplars in order, connection rules) is the
\* one function of KB, description and ceiling; and the finished request holds
\* the builder path, node order and instruction sequence that follow from that
\* context alone.
C11_Deterministic ==
    /\ pc = "context" => context = FixedOrderContext
    /\ pc = "done" =>
          IF example_patterns # <<>>
          THEN /\ method = "pattern:" \o example_patterns[1].name
               /\ out = PatternLines(example_patterns[1])
               /\ nodes = <<>> /\ links = <<>>
          ELSE /\ method = "compositional"
               /\ used_idiom = SelectIdiom(Ids(matched))
               /\ CurDag = EnsureRealizeInstances(RunBuilder(used_idiom, EmptyDag, matched))
               /\ out = EmitLines(CurDag)

\* C11 witness: a finished compositional request whose description gave
\* several terms and whose graph holds two retrieved operators.
C11_Witness ==
    /\ pc = "done" /\ method = "compositional"
    /\ Cardinality(search_terms) >= 3
    /\ Len(nodes) >= 2
    /\ \E i \in DOMAIN matched : matched[i].note = "None"

\* ===================================================================
\* Further properties of generate_compositional (specification SpecGen)
\* ===================================================================
\* no edge of ls lies on a directed cycle
Acyclic(ls) == \A i \in DOMAIN ls : ls[i][1] \notin ReachSet(ls, {ls[i][3]})

\* the graph the selected builder left, before the repair pass of emit()
BuiltDag == RunBuilder(used_idiom, EmptyDag, matched)

\* C12: the finished graph is acyclic.  The graph the builder leaves has no
\* directed cycle and neither has the graph after the repair pass; when the
\* repair inserted a node, it is a realize node, each edge into it replaces an
\* edge that went from the same source to Output, and its single outgoing edge
\* goes to Output.
C12_Acyclic ==
    pc = "done" =>
        /\ Acyclic(BuiltDag.links)
        /\ Acyclic(links)
        /\ Len(nodes) # Len(BuiltDag.nodes) =>
              LET r == nodes[Len(nodes)][1]
              IN  /\ Len(nodes) = Len(BuiltDag.nodes) + 1
                  /\ nodes[Len(nodes)][2] = REALIZE
                  /\ \A i \in DOMAIN links :
                        links[i][3] = r =>
                            /\ i \in DOMAIN BuiltDag.links
                            /\ BuiltDag.links[i][3] = "gout"
                            /\ BuiltDag.links[i][1] = links[i][1]
                            /\ links[i][1] \in {BuiltDag.nodes[k][1] : k \in DOMAIN BuiltDag.nodes}
                  /\ Cardinality({i \in DOMAIN links : links[i][1] = r}) = 1
                  /\ \A i \in DOMAIN links : links[i][1] = r => links[i][3] = "gout"

\* C12 witness: the linear fallback ended in an instance-producing operator
\* and the repair pass put a realize node between it and Output.
C12_Witness ==
    /\ pc = "done" /\ used_idiom = "None"
    /\ Len(nodes) = Len(BuiltDag.nodes) + 1
    /\ nodes[Len(nodes)][2] = REALIZE
    /\ \E i \in DOMAIN links : links[i][3] = nodes[Len(nodes)][1]

\* ===================================================================
\* Properties of the searches (specification SpecSearch)
\* ===================================================================
\* the retrieved operators of the context, in order, as indices into the KB
RetrievedIdx ==
    LET r == SelectSeq(matched, LAMBDA m : m.note = "None")
    IN  [i \in DOMAIN r |-> CHOOSE k \in DOMAIN kb : kb[k].id = r[i].id]

\* the exemplars of the context, in order, as indices into the library
ExemplarIdx ==
    [i \in DOMAIN example_patterns |->
        CHOOSE k \in DOMAIN kb_patterns : kb_patterns[k] = example_patterns[i]]

\* idx lists, out of the candidates 1..n with the given scores, exactly the
\* first `ceiling` of those scoring above zero when ranked by descending score
\* with equal scores in candidate order
RankedPrefix(idx, n, score(_), ceiling) ==
    LET before(a, b) == score(a) > score(b) \/ (score(a) = score(b) /\ a < b)
    IN  /\ \A i, j \in DOMAIN idx : i < j => before(idx[i], idx[j])
        /\ \A i \in DOMAIN idx : score(idx[i]) > 0
        /\ Len(idx) <= ceiling
        /\ \A k \in 1..n :
              (score(k) > 0 /\ k \notin Range(idx)) =>
                  (Len(idx) = ceiling /\ \A i \in DOMAIN idx : before(idx[i], k))

\* C13: candidate ranking.  The operators search_nodes returned and the
\* exemplars search_patterns returned are in descending score order with equal
\* scores in KB order, none scores zero, and they are exactly the first
\* `ceiling` entries of the full ranking.
C13_Ranking ==
    pc = "context" =>
        /\ LET sc(k) == NodeScore(kb[k], search_terms)
           IN  RankedPrefix(RetrievedIdx, Len(kb), sc, max_nodes)
        /\ LET sc(k) == PatScore(kb_patterns[k], search_terms)
           IN  RankedPrefix(ExemplarIdx, Len(kb_patterns), sc, PatternMax)

\* C13 witness: both searches cut their ranking at the ceiling, and two of the
\* operators returned have the same score.
C13_Witness ==
    /\ pc = "context"
    /\ Len(RetrievedIdx) = max_nodes
    /\ \E k \in DOMAIN kb : NodeScore(kb[k], search_terms) > 0 /\ k \notin Range(RetrievedIdx)
    /\ \E i, j \in DOMAIN RetrievedIdx :
          i < j /\ NodeScore(kb[RetrievedIdx[i]], search_terms)
                     = NodeScore(kb[RetrievedIdx[j]], search_terms)
    /\ Len(example_patterns) = PatternMax
    /\ \E k \in DOMAIN kb_patterns : PatScore(kb_patterns[k], search_terms) > 0
                                       /\ k \notin Range(ExemplarIdx)

\* the score of the claim: as TermScore, but the domain adds 3 only when the
\* term equals it
EqualDomainTermScore(profile, term) ==
    LET term_lower == Lower(term)
        ports == profile.inputs \o profile.outputs
    IN  (IF Contains(Lower(Chars(profile.name)), term_lower) THEN 10 ELSE 0)
        + (IF Contains(Lower(Chars(profile.id)), RemoveSpaces(term_lower)) THEN 5 ELSE 0)
        + 2 * Cardinality({i \in DOMAIN ports :
                              Contains(Lower(Chars(ports[i].name)), term_lower)})
        + (IF term_lower = Chars(profile.domain) THEN 3 ELSE 0)

\* C14 (as claimed): the score search_nodes computes for an operator is the sum
\* over the terms of 10 for a display-name match, 5 for a type-identifier
\* match, 2 per matching port, and 3 if the term equals the domain tag.
C14_ScoreAsClaimed ==
    pc = "context" =>
        \A k \in DOMAIN kb :
            ScoreLoop(kb[k], SetToSeq(search_terms), 0)
                = SumF([t \in search_terms |-> EqualDomainTermScore(kb[k], t)], search_terms)

\* the term set of the claim: the raw tokens, the mapped terms of every token
\* that is a key, and the mapped terms of every key of several words that
\* occurs in the lower-cased text
TokenAndPhraseTerms(desc) ==
    LET desc_lower == Lower(desc)
        words == FindAllWords(desc_lower)
        mapped(e) == {Chars(e[2][i]) : i \in DOMAIN e[2]}
    IN  words
        \cup UNION {mapped(e) : e \in {e \in Range(TERM_MAP) : Chars(e[1]) \in words}}
        \cup UNION {mapped(e) : e \in {e \in Range(TERM_MAP) :
                                          /\ Contains(Chars(e[1]), <<" ">>)
                                          /\ Contains(desc_lower, Chars(e[1]))}}

\* C15 (as claimed): extract_search_terms returns exactly the raw tokens, the
\* mapped terms of the tokens that are keys and the mapped terms of the phrase
\* keys that occur; a description with no key among its tokens yields its raw
\* tokens only.
C15_TermsAsClaimed ==
    pc = "context" => search_terms = TokenAndPhraseTerms(description)

\* the port types of a profile or spec
PortTypesOf(x) == {x.inputs[i].type : i \in DOMAIN x.inputs}
                      \cup {x.outputs[i].type : i \in DOMAIN x.outputs}

\* the port types of the operators the context includes and of the KB
\* operators its exemplars use
ContextPortTypes ==
    UNION {PortTypesOf(matched[i]) : i \in DOMAIN matched}
    \cup UNION {UNION {PortTypesOf(KBGet(kb, p.nodes_used[j].type)) :
                          j \in {j \in DOMAIN p.nodes_used : p.nodes_used[j].type \in KBIds(kb)}} :
                p \in Range(example_patterns)}

\* C16 (as claimed): every valid-connection entry of the KB that touches a port
\* type of an operator of the context (retrieved, auto-included, or used by an
\* included exemplar) is among the context's connection rules.
C16_ContextSelfSufficient ==
    pc = "context" =>
        \A i \in DOMAIN kb_connections :
            (kb_connections[i].from \in ContextPortTypes
                \/ kb_connections[i].to \in ContextPortTypes)
            => kb_connections[i] \in Range(connection_rules)

\* the operator at KB index k scores above zero and ranks within the ceiling
IsRetrieved(k) ==
    LET sc(j) == NodeScore(kb[j], search_terms)
        ahead == {j \in DOMAIN kb : sc(j) > 0 /\ (sc(j) > sc(k) \/ (sc(j) = sc(k) /\ j < k))}
    IN  sc(k) > 0 /\ Cardinality(ahead) < max_nodes

\* C17: essential operators.  Each of the three essential operators that is in
\* the KB has exactly one entry in matched_nodes: the auto-included spec, with
\* its note, when it was not retrieved, and its unchanged retrieved spec when
\* it was.
C17_Essentials ==
    pc = "context" =>
        \A e \in DOMAIN essential_nodes :
            \A k \in DOMAIN kb :
                kb[k].id = essential_nodes[e] =>
                    /\ Cardinality({i \in DOMAIN matched : matched[i].id = kb[k].id}) = 1
                    /\ Get(matched, kb[k].id) =
                          IF IsRetrieved(k) THEN RetrievedSpec(kb[k]) ELSE EssentialSpec(kb[k])
                    /\ ~IsRetrieved(k) =>
                          Get(matched, kb[k].id).note = "Essential utility node (auto-included)"

\* C17 witness: the KB holds the three essentials; one was retrieved and keeps
\* its retrieved spec, another was not and carries the note.
C17_Witness ==
    /\ pc = "context"
    /\ Range(essential_nodes) \subseteq KBIds(kb)
    /\ \E i \in DOMAIN matched :
          /\ matched[i].id \in Range(essential_nodes)
          /\ matched[i] = RetrievedSpec(KBGet(kb, matched[i].id))
    /\ \E i \in DOMAIN matched : matched[i].note = "Essential utility node (auto-included)"

\* the graph the builder of IDIOMS[i] alone builds from an empty graph
IdiomGraph(i) ==
    CASE i = 1 -> BuildScatterInstances(EmptyDag, matched)
      [] i = 2 -> BuildBooleanOp(EmptyDag, matched)
      [] i = 3 -> BuildJoinGeometry(EmptyDag, matched)
      [] i = 4 -> BuildCurveToMesh(EmptyDag, matched)

\* the idioms a finished request could have run first: the earliest triggered
FirstTriggered == {i \in DOMAIN IDIOMS : Triggered(i) /\ \A j \in 1..(i - 1) : ~Triggered(j)}

\* C18: exactly one builder path populates the graph of a request.  With an
\* exemplar match the exemplar adapter alone writes the script and no graph is
\* built; otherwise the graph is that of the builder of the first triggered
\* idiom alone; otherwise that of the linear chain alone.
C18_OneBuilderPath ==
    pc = "done" =>
        IF example_patterns # <<>>
        THEN /\ method = "pattern:" \o example_patterns[1].name
             /\ used_idiom = "None"
             /\ nodes = <<>> /\ links = <<>> /\ var_counter = 0
             /\ out = PatternLines(example_patterns[1])
        ELSE /\ method = "compositional"
             /\ IF FirstTriggered = {}
                THEN /\ used_idiom = "None"
                     /\ CurDag = EnsureRealizeInstances(BuildLinearChain(EmptyDag, matched))
                ELSE \A i \in FirstTriggered :
                        /\ used_idiom = IDIOMS[i].name
                        /\ CurDag = EnsureRealizeInstances(IdiomGraph(i))

\* C18 witness: a finished request without exemplar match whose context
\* triggers two idioms; the graph holds the nodes of the first one's builder.
C18_Witness ==
    /\ pc = "done" /\ example_patterns = <<>>
    /\ Cardinality({i \in DOMAIN IDIOMS : Triggered(i)}) >= 2
    /\ used_idiom = "scatter_instances"
    /\ nodes # <<>>

\* the add_node lines and the link lines of the script, in order
OutAddNodes == SelectSeq(out, LAMBDA l : l[1] = "add_node")
OutLinks == SelectSeq(out, LAMBDA l : l[1] = "link")

\* C19: exemplar adaptation mapping.  The adapter gives the exemplar nodes the
\* identifiers node_0, node_1, ... in their original order, and every edge
\* endpoint is mapped to the identifier of the exemplar node it names, also
\* when several nodes share that name, or to the Input (Output) pseudo-node
\* when it bears the reserved name.
C19_EndpointMapping ==
    pc = "done" =>
        LET p == example_patterns[1]
        IN  /\ Len(OutAddNodes) = Len(p.nodes_used)
            /\ \A i \in DOMAIN p.nodes_used :
                  /\ OutAddNodes[i][2] = VarName(i - 1)
                  /\ OutAddNodes[i][3] = p.nodes_used[i].type
            /\ Len(OutLinks) = Len(p.links)
            /\ \A k \in DOMAIN p.links :
                  /\ p.links[k].from_node = "Group Input" => OutLinks[k][2] = "gin"
                  /\ p.links[k].to_node = "Group Output" => OutLinks[k][4] = "gout"
                  /\ \A i \in DOMAIN p.nodes_used :
                        /\ (p.links[k].from_node # "Group Input"
                              /\ NodeName(p.nodes_used[i]) = p.links[k].from_node)
                           => OutLinks[k][2] = VarName(i - 1)
                        /\ (p.links[k].to_node # "Group Output"
                              /\ NodeName(p.nodes_used[i]) = p.links[k].to_node)
                           => OutLinks[k][4] = VarName(i - 1)

\* the same mapping over the exemplars whose nodes bear distinct names
C19_DistinctNames ==
    (pc = "done" /\ Cardinality(PatNames(example_patterns[1].nodes_used))
                        = Len(example_patterns[1].nodes_used))
        => C19_EndpointMapping

\* the pool _build_linear_chain draws the chain from
ChainPool ==
    LET favorable == SelectSeq(matched, LAMBDA sp : sp.role = "processor"
                                   /\ sp.observed_behavior \in FavorableBehaviors)
        generators == SelectSeq(matched, LAMBDA sp : sp.role = "generator")
    IN  IF favorable # <<>> THEN favorable
        ELSE IF generators # <<>> THEN generators
        ELSE <<DefaultChainSpec>>

\* the nodes of the graph placed in the chain's row
ChainRow == SelectSeq(nodes, LAMBDA n : n[5] = 0)

\* C20: linear chain selection.  When no idiom is selected, the chain nodes
\* are, in retrieval order, the first 8 at most of the favorable processors
\* when there is one, otherwise of the generators when there is one, otherwise
\* the default operator alone; the only other node the chain's row may hold is
\* the Realize Instances node of the repair, behind them.
C20_ChainSelection ==
    (pc = "done" /\ used_idiom = "None") =>
        LET n == IF Len(ChainPool) < ChainMax THEN Len(ChainPool) ELSE ChainMax
        IN  /\ n <= ChainMax
            /\ Len(ChainRow) \in {n, n + 1}
            /\ \A i \in 1..n :
                  /\ ChainRow[i][2] = ChainPool[i].id
                  /\ ChainRow[i][3] = ChainPool[i].name
                  /\ ChainRow[i][4] = i
            /\ Len(ChainRow) = n + 1 =>
                  /\ ChainRow[n + 1][2] = REALIZE
                  /\ \A i \in 1..n : ChainRow[i][2] # REALIZE
            /\ \A k \in DOMAIN nodes :
                  nodes[k][5] # 0 => \E j \in DOMAIN matched :
                                        matched[j].id = nodes[k][2] /\ matched[j].role = "field"

\* C20 witness: a finished linear chain over a context that holds more than 8
\* generators and more than 8 favorable processors behind them.
C20_Witness ==
    /\ pc = "done" /\ used_idiom = "None"
    /\ Len(ChainPool) > ChainMax
    /\ Len(WithRole(matched, "generator")) > ChainMax
    /\ matched[1].role = "generator"
    /\ Len(ChainRow) = ChainMax

\* the node with that identifier was placed for a retrieved field operator
IsFieldVar(v) ==
    \E j \in DOMAIN matched : matched[j].id = VarToType(nodes, v) /\ matched[j].role = "field"

\* the edges of the graph that leave a field node
FieldEdges == {k \in DOMAIN links : IsFieldVar(links[k][1])}

\* the type of the port of that name among ports, "None" when there is none
PortType(ports, name) ==
    IF \E i \in DOMAIN ports : ports[i].name = name
    THEN ports[CHOOSE i \in DOMAIN ports : ports[i].name = name].type
    ELSE "None"

\* C21: field side-inputs of the linear chain.  Every input port of a chain
\* node receives at most one edge from a field node, a field operator is
\* attached to at most one input of one chain node, and every such edge joins
\* type-compatible ports.
C21_FieldAttachments ==
    (pc = "done" /\ used_idiom = "None") =>
        /\ \A k1, k2 \in FieldEdges :
              (links[k1][3] = links[k2][3] /\ links[k1][4] = links[k2][4]) => k1 = k2
        /\ \A k1, k2 \in FieldEdges :
              (links[k1][3] = links[k2][3]
                 /\ VarToType(nodes, links[k1][1]) = VarToType(nodes, links[k2][1])) => k1 = k2
        /\ \A k \in FieldEdges :
              LET f == Get(matched, VarToType(nodes, links[k][1]))
                  c == Get(matched, VarToType(nodes, links[k][3]))
              IN  VarToType(nodes, links[k][3]) \in Ids(matched) =>
                     TypesCompatible(PortType(f.outputs, links[k][2]),
                                     PortType(c.inputs, links[k][4]))

\* the retrieved generators, in retrieval order
Generators == SelectSeq(matched, LAMBDA sp : sp.role = "generator")

\* C22: fan-in merge.  With g >= 1 generators in the context, the merge
\* builder places min(g, 3) generator nodes, in retrieval order, and one merge
\* node; Input and the graph-typed output of every placed generator are wired
\* into one and the same input port of the merge node, 1 + min(g, 3) edges in
\* all, and the merge node's output is wired to Output.
C22_FanInMerge ==
    (pc = "done" /\ used_idiom = "join_geometry" /\ Generators # <<>>) =>
        LET n == IF Len(Generators) < JoinMaxGens THEN Len(Generators) ELSE JoinMaxGens
            join == VarName(n)
            into == {k \in DOMAIN links : links[k][3] = join}
        IN  /\ Len(nodes) = n + 1
            /\ \A i \in 1..n : nodes[i][2] = Generators[i].id
            /\ nodes[n + 1][1] = join /\ nodes[n + 1][2] = JOIN
            /\ Cardinality(into) = n + 1
            /\ \A k1, k2 \in into : links[k1][4] = links[k2][4]
            /\ \E k \in into : links[k][1] = "gin" /\ links[k][2] = "Geometry"
            /\ \A i \in 1..n :
                  \E k \in into : /\ links[k][1] = VarName(i - 1)
                                  /\ PortType(Generators[i].outputs, links[k][2]) = "GEOMETRY"
            /\ Len(links) = n + 2
            /\ \E k \in DOMAIN links : links[k][1] = join /\ links[k][3] = "gout"

\* C22 witness: a merge built over a context of more than three generators.
C22_Witness ==
    /\ pc = "done" /\ used_idiom = "join_geometry"
    /\ Len(Generators) > JoinMaxGens
    /\ Cardinality({k \in DOMAIN links : links[k][3] = VarName(JoinMaxGens)}) = JoinMaxGens + 1

\* the property assignments recorded on nodes of the combine operator
CombineAssignments ==
    SelectSeq(properties, LAMBDA a : VarToType(nodes, a[1]) = BOOL)

\* C23: default mode of the binary combine.  When the combine operator's spec
\* holds an enumerated "operation" property, one assignment is recorded on the
\* combine node and its value is the first option of the first enumerated
\* property of the spec; when the spec holds no enumerated property, no
\* assignment is recorded.
C23_DefaultMode ==
    (pc = "done" /\ used_idiom = "boolean_op") =>
        LET ep == Get(matched, BOOL).enum_properties
        IN  /\ (\E i \in DOMAIN ep : ep[i].name = "operation") =>
                  /\ Len(CombineAssignments) = 1
                  /\ CombineAssignments[1][2] \in {ep[1].name, "operation"}
                  /\ CombineAssignments[1][3] = Scalar(ep[1].items[1])
            /\ ep = <<>> => properties = <<>>

\* the weaker reading: the value is the first option of the property assigned
C23_FirstOptionOfOperation ==
    (pc = "done" /\ used_idiom = "boolean_op") =>
        LET ep == Get(matched, BOOL).enum_properties
        IN  \A i \in DOMAIN ep :
                ep[i].name = "operation" =>
                    /\ Len(CombineAssignments) = 1
                    /\ CombineAssignments[1][3] = Scalar(ep[i].items[1])

\* the lines of the script of that kind, in order
OutLines(kind) == SelectSeq(out, LAMBDA l : l[1] = kind)

\* the lines of the script of that kind written for the node var, in order
OutLinesOf(kind, var) == SelectSeq(out, LAMBDA l : l[1] = kind /\ l[2] = var)

\* the index of the last add_node line at or before line j, 0 when none
BlockStart(j) == Max({i \in 1..j : out[i][1] = "add_node"}, 0)

\* C24: two-phase emission structure.  The script of emit() creates the nodes
\* in creation order; the block of a node is contiguous: its creation, then
\* its property assignments in insertion order, then its default assignments
\* in insertion order; every wire comes after the last node block and the
\* wires are in edge-list order; no assignment of a node of the graph is lost
\* or written twice.
C24_TwoPhaseEmission ==
    emits >= 1 =>
        /\ Len(OutLines("add_node")) = Len(nodes)
        /\ \A i \in DOMAIN nodes :
              /\ OutLines("add_node")[i][2] = nodes[i][1]
              /\ OutLines("add_node")[i][3] = nodes[i][2]
        /\ \A i \in DOMAIN nodes :
              LET var == nodes[i][1]
                  ps == SelectSeq(properties, LAMBDA a : a[1] = var)
                  ds == SelectSeq(defaults, LAMBDA a : a[1] = var)
              IN  /\ Len(OutLinesOf("set_prop", var)) = Len(ps)
                  /\ \A k \in DOMAIN ps :
                        /\ OutLinesOf("set_prop", var)[k][3] = ps[k][2]
                        /\ OutLinesOf("set_prop", var)[k][4][2] = ps[k][3][2]
                  /\ Len(OutLinesOf("set_default", var)) = Len(ds)
                  /\ \A k \in DOMAIN ds :
                        /\ OutLinesOf("set_default", var)[k][3] = ds[k][2]
                        /\ OutLinesOf("set_default", var)[k][4][2] = ds[k][3][2]
        /\ \A j \in DOMAIN out :
              out[j][1] \in {"set_prop", "set_default"} =>
                 /\ BlockStart(j) > 0
                 /\ out[BlockStart(j)][2] = out[j][2]
                 /\ \A i \in (BlockStart(j) + 1)..j :
                       /\ out[i][1] \in {"set_prop", "set_default"}
                       /\ out[j][1] = "set_prop" => out[i][1] = "set_prop"
        /\ \A i, j \in DOMAIN out :
              (out[i][1] \in {"add_node", "set_prop", "set_default"} /\ out[j][1] = "link")
                 => i < j
        /\ Len(OutLines("link")) = Len(links)
        /\ \A k \in DOMAIN links :
              <<OutLines("link")[k][2], OutLines("link")[k][3],
                OutLines("link")[k][4], OutLines("link")[k][5]>> = links[k]

\* C24 witness: emit() has run on a graph in which one node carries a property
\* and a default, and which holds a wire.
C24_Witness ==
    /\ emits >= 1 /\ links # <<>>
    /\ \E i \in DOMAIN nodes :
          /\ OutLinesOf("set_prop", nodes[i][1]) # <<>>
          /\ OutLinesOf("set_default", nodes[i][1]) # <<>>

\* the classes of the type universe
NumericClass == {"BOOLEAN", "INT", "VALUE", "VECTOR", "RGBA"}
SpatialClass == {"ROTATION", "MATRIX"}

\* the relation as the classes define it: reflexive, total inside the numeric
\* class and inside the spatial class, empty between distinct types otherwise
ClassCompatible(a, b) ==
    \/ a = b
    \/ a \in NumericClass /\ b \in NumericClass
    \/ a \in SpatialClass /\ b \in SpatialClass

\* C25: the type-compatibility relation the builder uses is reflexive, relates
\* every ordered pair inside the numeric class and inside the spatial class,
\* and relates no two distinct types one of which is a resource type: in a
\* finished linear chain a field operator is attached to a chain node exactly
\* when one of its outputs and one of the node's non-graph inputs are related
\* by the classes.
C25_ClassRelation ==
    (pc = "done" /\ used_idiom = "None") =>
        \A i \in 1..Len(ChainPool) : \A j \in DOMAIN matched :
            (i <= ChainMax /\ matched[j].role = "field") =>
                LET c == ChainPool[i]
                    f == matched[j]
                    related == \E o \in DOMAIN f.outputs : \E n \in DOMAIN c.inputs :
                                  /\ c.inputs[n].type # "GEOMETRY"
                                  /\ ClassCompatible(f.outputs[o].type, c.inputs[n].type)
                    attached == \E k \in DOMAIN links :
                                  /\ links[k][3] = ChainRow[i][1]
                                  /\ VarToType(nodes, links[k][1]) = f.id
                IN  related <=> attached

\* ===================================================================
\* Further properties of the builder (specification Spec)
\* ===================================================================
\* the repair pass has added its realize node and its edge to the graph
Repaired == Len(nodes) + Len(links) + Len(properties) + Len(defaults) = ops + 2

\* C26 (as claimed): a second emit() on a graph whose repair already inserted
\* a realize node is an internal error, so no second emit() ever completes on
\* such a graph.
C26_RepairLoopGuard == ~(emits >= 2 /\ Repaired)

\* C27 (as claimed): after emit() no edge that ends at Output leaves an
\* instance-producing node, also when a realize node exists in the graph
\* without being downstream of that node.
C27_NoInstanceAtOutput ==
    emits >= 1 => OffendingEdges(nodes, links) = {}

\* ===================================================================
\* Further properties of generate_script (specification SpecScript)
\* ===================================================================
\* C28: whenever the KB holds the join/merge operator, the context of
\* build_context holds it, retrieved or auto-included, and a request that goes
\* through generate_compositional selects an idiom builder: the linear chain
\* is never built, whatever the description.
C28_JoinAlwaysTriggers ==
    JOIN \in KBIds(kb) =>
        /\ pc # "start" => JOIN \in Ids(matched)
        /\ (pc = "done" /\ method = "compositional") =>
              /\ used_idiom \in {IDIOMS[i].name : i \in DOMAIN IDIOMS}
              /\ CurDag # EnsureRealizeInstances(BuildLinearChain(EmptyDag, matched))

\* C28 witness: a finished request on a KB with the join/merge operator whose
\* description retrieves nothing; the merge idiom was selected.
C28_Witness ==
    /\ pc = "done" /\ method = "compositional"
    /\ JOIN \in KBIds(kb)
    /\ RetrievalMiss
    /\ Get(matched, JOIN).note = "Essential utility node (auto-included)"
    /\ used_idiom = "join_geometry"

\* ===================================================================
\* Further properties of generate_from_pattern (specification SpecPattern)
\* ===================================================================
\* C29: the exemplar path keeps the ordering of emit().  In the script of
\* generate_from_pattern every node creation, which carries the node's kept
\* properties, and every default assignment comes before the first wire, and
\* every exemplar node is created and every exemplar edge wired.
C29_PatternOrdering ==
    pc = "done" =>
        LET p == example_patterns[1]
        IN  /\ \A i, j \in DOMAIN out :
                  (out[i][1] \in {"add_node", "set_default"} /\ out[j][1] = "link") => i < j
            /\ Len(OutLines("add_node")) = Len(p.nodes_used)
            /\ Len(OutLines("link")) = Len(p.links)
            /\ \A i \in DOMAIN p.nodes_used :
                  Len(OutLines("add_node")[i][6]) = Len(FilterProps(p.nodes_used[i].properties))

\* C29 witness: the script of an exemplar of two nodes, the second of them
\* with a default assignment, and with two edges, one from Input and one that
\* leaves the second node.
C29_Witness ==
    /\ pc = "done"
    /\ Len(example_patterns[1].nodes_used) = 2
    /\ OutLinesOf("set_default", VarName(1)) # <<>>
    /\ \E j \in DOMAIN out : out[j][1] = "link" /\ out[j][2] = "gin"
    /\ \E j \in DOMAIN out : out[j][1] = "link" /\ out[j][2] = VarName(1)

\* ===================================================================
\* Properties of the node identifiers (specification SpecFresh)
\* ===================================================================
\* C30: node identifiers are fresh and unique.  After any sequence of add()
\* and emit() calls, the realize node of the repair included, the identifiers
\* of the nodes are pairwise distinct, none is gin or gout, the k-th node
\* created is node_(k-1), and the counter equals the number of nodes.
C30_FreshIds ==
    /\ \A i, j \in DOMAIN nodes : i # j => nodes[i][1] # nodes[j][1]
    /\ \A i \in DOMAIN nodes : nodes[i][1] \notin {"gin", "gout"}
    /\ \A i \in DOMAIN nodes : nodes[i][1] = VarName(i - 1)
    /\ var_counter = Len(nodes)

\* C30 witness: the repair of an emit() has added its realize node, and add()
\* was called after that emit().
C30_Witness ==
    /\ emits >= 1
    /\ \E i \in DOMAIN nodes :
          /\ nodes[i][2] = REALIZE /\ nodes[i][4] = 2
          /\ i < Len(nodes)
          /\ \E k \in DOMAIN links : links[k][3] = nodes[i][1]

====
